---- MODULE Spec2Model ----
(***************************************************************************)
(* State-machine model of p2p_python/client.py (class PeerClient): the     *)
(* request / response / ack protocol, the broadcast flood with loop        *)
(* suppression, the administrative file delete, the blob store and the     *)
(* DIRECT_CMD wait loop.                                                    *)
(*                                                                         *)
(* A node is one PeerClient.  The dispatcher thread of a node (start.      *)
(* processing) is the only consumer of the node's inbound stream, so one   *)
(* handler call is one action; messages of one neighbor arrive in the      *)
(* order sent, messages of different neighbors in any order.  A            *)
(* send_command call is split where it blocks (the poll loop) and where    *)
(* another thread of the same node can observe its intermediate state.     *)
(* Correlation ids are drawn fresh (random.randint over 9*10^8 values in   *)
(* the code): the model hands them out from a counter.                     *)
(***************************************************************************)
EXTENDS Integers, Sequences, FiniteSets, TLC

\* ------------------------------------------------------------------ bounds
MaxUuid == 2            \* send_command calls in one run on three connected nodes
MaxLiveUuid == 1        \* the same, in the runs checked for liveness
StackLimit == 1         \* stands for self.p2p.listen * 100 (client.py:342-347)
WaitingAckLimit == 1    \* stands for the literal 50 of client.py:348

ClockStep == 15         \* seconds the clock advances in one step
MaxClock == 45          \* the clock stops here

MaxFileUuid == 5        \* send_command calls in one run of the file protocol
MaxApi == 3             \* share_file / get_file / remove_file calls of one application
MaxForged == 1          \* envelopes a hostile neighbor makes up
DirectPolls == 2        \* stands for the initial c = 200 of client.py:318
MaxItems == 2           \* inbound items a closing node still receives
ListenCap == 8          \* stands for listen=15 of client.py:47 (self.p2p.listen)
MaxWalkUuid == 12       \* send_command calls in one run of the relay walk on the triangle
MaxMutate == 1          \* times random.random() < 0.01 comes true in one run (client.py:639)

\* client.py:349 keeps waiting_ack[25:], half of the limit
WaitingAckDrop == (WaitingAckLimit + 1) \div 2

\* --------------------------------------------------------------- constants
T_REQUEST == "type/client/request"
T_RESPONSE == "type/client/response"
T_ACK == "type/client/ack"
BROADCAST == "cmd/client/broadcast"
FILE_CHECK == "cmd/client/file-check"
FILE_GET == "cmd/client/file-get"
FILE_DELETE == "cmd/client/file-delete"
DIRECT_CMD == "cmd/client/direct-cmd"
PING_PONG == "cmd/client/ping-pong"

SignatureMaxAge == 30   \* client.py:291

Nodes == {"A", "B", "C", "D"}
None == "None"
Links == {e \in Nodes \X Nodes : e[1] # e[2]}

\* the payload a caller broadcasts
Payloads == {"X"}

\* envelope data: a tagged value, so that values of different shapes are
\* never compared with each other
NoData == [k |-> "none", v |-> 0]
PayloadData(p) == [k |-> "payload", v |-> p]
CountData(c) == [k |-> "count", v |-> c]
EnvelopeData(m) == [k |-> "envelope", v |-> m]
ErrorData(e) == [k |-> "error", v |-> e]
\* FILE_CHECK: {'hash': .., 'uuid': ..} and the answer {'have': .., 'asked': ..}
CheckData(h, u) == [k |-> "check", v |-> [hash |-> h, uuid |-> u]]
HaveData(have, asked) == [k |-> "have", v |-> [have |-> have, asked |-> asked]]
\* FILE_GET: {'hash': .., 'asked': ..} and the answer, the raw bytes
GetData(h, asked) == [k |-> "get", v |-> [hash |-> h, asked |-> asked]]
RawData(b) == [k |-> "raw", v |-> b]

\* ---------------------------------------------------------- blob store
\* blobs and their SHA-256 hex digests (lower case, as hexdigest() gives
\* them); a caller may write a digest in upper case
Blobs == {"b1", "b2"}
NoFile == "absent"
\* what a reader finds between open(mode='bw') and the end of the write
Partial == ""
\* a byte string of MAX_RECEIVE_SIZE + 1000 bytes or more (client.py:449)
TooBig == "big"
sha256(b) == IF b = "b1" THEN "h1" ELSE IF b = "b2" THEN "h2" ELSE "h0"
Lower(h) == IF h = "H1" THEN "h1" ELSE IF h = "H2" THEN "h2" ELSE h
FileNames == {"h1", "h2", "H1", "H2"}
Exists(store, h) == store[h] # NoFile

\* ----------------------------------------------------- EncryptRSA, pem
\* a signature names the private key that made it and the bytes signed;
\* the pem directory holds the public key of "master" under one name
Keys == {"master", "other"}
Pems == {"public.master.pem", "missing.pem"}
InstalledPems == {"public.master.pem"}
Sign(sk, raw) == <<sk, raw>>
Verify(pem, raw, sign) == pem = "public.master.pem" /\ sign = <<"master", raw>>
DeleteData(raw, sign, pem) == [k |-> "delete", v |-> [raw |-> raw, sign |-> sign, pem |-> pem]]

VARIABLES
    client,            \* p2p.client of each node: its connected neighbors
    chan,              \* messages sent and not yet handled, per directed link
    result,            \* self.result (StackDict), oldest entry first
    waiting_ack,       \* self.waiting_ack
    file_client_path,  \* self.file_client_path (StackDict)
    broadcast_que,     \* items published on self.broadcast_que, in order
    calls,             \* send_command calls, keyed by their uuid
    nextUuid,          \* next fresh correlation id
    uuidLimit,         \* send_command calls the callers make in this run
    callers,           \* nodes whose application calls send_command
    accepts,           \* nodes whose broadcast_check admits "X"
    files,             \* blob store of each node: hex digest -> contents
    now,               \* wall clock, in seconds
    admitted,          \* history: times a node admitted a BROADCAST uuid
    evicted,           \* history: times a uuid was pruned from a node's result
    trimmed,           \* history: times a uuid was trimmed from a waiting_ack
    handled,           \* history: FILE_DELETE requests that passed the dedup
    direct_cmd_result, \* self.direct_cmd_result (StackDict)
    direct_cmd_que,    \* items published on self.direct_cmd_que, in order
    direct,            \* DirectCmd threads (client.py:317-329)
    responders,        \* nodes whose application answers direct_cmd_que items
    api,               \* the application thread of each node inside share_file / get_file
    tasks,             \* Sending and Asking threads (client.py:205-283)
    hostile,           \* neighbors that send envelopes of their own making
    forged,            \* envelopes the hostile neighbors have sent
    shared,            \* history: what share_file returned, per node and digest
    stream_que,        \* p2p.stream_que of each node, as the dispatcher loop reads it
    f_stop,            \* self.f_stop
    f_finish,          \* self.f_finish
    proc,              \* the Processing thread of each node (client.py:101-129)
    closer,            \* the thread of each node inside close_client (client.py:90-98)
    arrived,           \* history: the items the dispatcher loop took, and what became of them
    stab,              \* the Stabilize thread (client.py:510-651) and the peers it sees
    slicing,           \* per node: the slice of waiting_ack the dispatcher has built and not yet stored
    fileUuidLimit,     \* send_command calls of the file protocol in this run
    faulty             \* directed links on which p2p.send_msg raises

netVars == <<client, chan>>
tableVars == <<result, waiting_ack, file_client_path, direct_cmd_result>>
floodHist == <<admitted, evicted, trimmed>>
stopVars == <<stream_que, f_stop, f_finish, proc, closer, arrived>>
threadVars == <<stab, slicing, fileUuidLimit, faulty>>
envVars == <<uuidLimit, callers, accepts, responders, hostile, stopVars, threadVars>>
storeVars == <<files, now, handled, shared>>
directVars == <<direct_cmd_que, direct>>
fileVars == <<api, tasks, forged>>
vars == <<client, chan, result, waiting_ack, file_client_path, broadcast_que,
          calls, nextUuid, uuidLimit, callers, accepts, files, now,
          admitted, evicted, trimmed, handled, direct_cmd_result,
          direct_cmd_que, direct, responders, api, tasks, hostile, forged, shared,
          stream_que, f_stop, f_finish, proc, closer, arrived, stab, slicing, fileUuidLimit,
          faulty>>

UuidSpace == IF MaxUuid + MaxFileUuid > MaxWalkUuid THEN MaxUuid + MaxFileUuid ELSE MaxWalkUuid
Uuids == 1..UuidSpace

\* ------------------------------------------------- StackDict (utils.py)
Include(sd, u) == \E i \in 1..Len(sd) : sd[i].uuid = u
Get(sd, u) == sd[CHOOSE i \in 1..Len(sd) : sd[i].uuid = u].item
Put(sd, u, it) == IF Include(sd, u) THEN sd ELSE Append(sd, [uuid |-> u, item |-> it])
DelOld(sd) == SubSeq(sd, (Len(sd) \div 2) + 1, Len(sd))
UuidsOf(sd) == {sd[i].uuid : i \in 1..Len(sd)}

\* ------------------------------------------------------------ _send_msg
\* client.py:379-396.  The clients the message reaches and the count
\* returned: allow \ deny, less the clients for which p2p.send_msg raises
\* (the ones no longer connected and the ones behind a faulty link), which
\* the loop skips without counting
SendToAll(n, allow, deny) == (allow \ deny) \cap client[n]

SendTargets(n, allow, deny) == {c \in (allow \ deny) \cap client[n] : <<n, c>> \notin faulty}
_send_msg(ch, n, msg, targets) ==
    [e \in DOMAIN ch |->
        IF e[1] = n /\ e[2] \in targets THEN Append(ch[e], msg) ELSE ch[e]]

\* -------------------------------------------------- garbage correction
TrimResult(sd) == IF Len(sd) > StackLimit THEN DelOld(sd) ELSE sd
TrimWaitingAck(w) ==
    IF Len(w) > WaitingAckLimit
    THEN SubSeq(w, WaitingAckDrop + 1, Len(w)) ELSE w

\* uuids a prune removed from a table
Dropped(old, new) == UuidsOf(old) \ UuidsOf(new)
MarkersOf(w) == {w[i] : i \in 1..Len(w)}
CountEvictions(ev, gone) == [u \in Uuids |-> IF u \in gone THEN ev[u] + 1 ELSE ev[u]]

\* ------------------------------------------------------- broadcast_check
\* the user-supplied admission predicate (overridable, client.py:653-655)
broadcast_check(n, data) == data.k = "payload" /\ data.v = "X" /\ n \in accepts

\* ------------------------------------------------------------ envelopes
Envelope(type, cmd, data, uuid) == [type |-> type, cmd |-> cmd, data |-> data, uuid |-> uuid]
HasMsg(n, f) == chan[<<f, n>>] # <<>>
Msg(n, f) == Head(chan[<<f, n>>])
Consume(ch, n, f) == [ch EXCEPT ![<<f, n>>] = Tail(@)]

\* ------------------------------------------------- send_command: start
\* wait=5 in the signature (client.py:398), wait = 20 for FILE_GET
\* (client.py:418)
DefaultWait == 5
FileGetWait == 20

\* a thread makes one send_command call at a time; owner 0 is the
\* application thread of the node, owner t > 0 the Asking thread tasks[t]
UserIdle(n) ==
    /\ api[n].pc = "idle"
    /\ \A u \in DOMAIN calls :
          (calls[u].node = n /\ calls[u].owner = 0) => calls[u].pc \in {"ret", "err"}

\* client.py:399-426 for BROADCAST: fresh uuid, NoConnection when there is
\* no neighbor, else the uuid is appended to waiting_ack
SkipMark(w, u) == w

MarkWaitingAck(w, u) == Append(w, u)

SendCommandBroadcast(n, p) ==
    /\ nextUuid <= uuidLimit
    /\ n \in callers
    /\ UserIdle(n)
    /\ nextUuid' = nextUuid + 1
    /\ IF client[n] = {}
       THEN /\ calls' = calls @@ (nextUuid :> [node |-> n, owner |-> 0, cmd |-> BROADCAST,
                            data |-> PayloadData(p), client |-> None, clients |-> {},
                            pc |-> "err", ret |-> <<None, ErrorData("ConnectionError")>>,
                            wait |-> DefaultWait, sent |-> {}])
            /\ UNCHANGED waiting_ack
       ELSE /\ calls' = calls @@ (nextUuid :> [node |-> n, owner |-> 0, cmd |-> BROADCAST,
                            data |-> PayloadData(p), client |-> None, clients |-> client[n],
                            pc |-> "send", ret |-> <<None, NoData>>,
                            wait |-> DefaultWait, sent |-> {}])
            /\ waiting_ack' = [waiting_ack EXCEPT ![n] = MarkWaitingAck(@, nextUuid)]
    /\ UNCHANGED <<netVars, result, file_client_path, direct_cmd_result, broadcast_que,
                   envVars, floodHist, storeVars, directVars, fileVars>>

\* client.py:427-430: the REQUEST goes to every selected neighbor; then a
\* wait below 1 raises ConnectionError, any other wait starts the poll
\* loop.  sent: the neighbors the REQUEST went to
SendCommandSend(u) ==
    /\ u \in DOMAIN calls
    /\ calls[u].pc = "send"
    /\ LET c == calls[u]
           msg == Envelope(T_REQUEST, c.cmd, c.data, u)
           targets == SendTargets(c.node, c.clients, {})
       IN /\ chan' = _send_msg(chan, c.node, msg, targets)
          /\ calls' = [calls EXCEPT ![u] =
                IF c.wait < 1
                THEN [c EXCEPT !.pc = "err", !.sent = targets,
                               !.ret = <<None, ErrorData("ConnectionError")>>]
                ELSE [c EXCEPT !.pc = "wait", !.sent = targets]]
    /\ UNCHANGED <<client, tableVars, broadcast_que, nextUuid, envVars, floodHist, storeVars, directVars, fileVars>>

\* client.py:432-441: the poll finds the uuid in the waiter table
SendCommandReturn(u) ==
    /\ u \in DOMAIN calls
    /\ calls[u].pc = "wait"
    /\ LET c == calls[u]
           n == c.node
       IN /\ Include(result[n], u)
          /\ LET got == Get(result[n], u)
             IN IF c.cmd = BROADCAST
                THEN /\ broadcast_que' = [broadcast_que EXCEPT ![n] =
                            Append(@, <<got[1], Envelope(T_REQUEST, c.cmd, c.data, u)>>)]
                     /\ calls' = [calls EXCEPT ![u].pc = "ret",
                                               ![u].ret = <<got[1], c.data>>]
                ELSE /\ UNCHANGED broadcast_que
                     /\ calls' = [calls EXCEPT ![u].pc = "ret", ![u].ret = got]
    /\ UNCHANGED <<netVars, tableVars, nextUuid, envVars, floodHist, storeVars, directVars, fileVars>>

\* client.py:442-445: the wait elapsed with no entry.  remove_connection gets
\* the local variable client: the argument of the call, or the neighbor
\* random.choice picked (client.py:421); None when a BROADCAST or
\* FILE_DELETE was called without one
RemoveConnection(cl, n, x) == [cl EXCEPT ![n] = @ \ {x}]
\* client.py:444-445: TimeoutError((cmd, data, uuid, name)), name being the
\* number of neighbors selected when client is None
NameData(x) == [k |-> "name", v |-> x]
TimeoutArgs(c, u) ==
    <<c.cmd, c.data, u,
      IF c.client = None THEN CountData(Cardinality(c.clients)) ELSE NameData(c.client)>>
TimeoutNobody(c) == None

TimeoutTarget(c) == c.client

SendCommandTimeout(u) ==
    /\ u \in DOMAIN calls
    /\ calls[u].pc = "wait"
    /\ ~Include(result[calls[u].node], u)
    /\ client' = RemoveConnection(client, calls[u].node, TimeoutTarget(calls[u]))
    /\ calls' = [calls EXCEPT ![u] =
            [pc |-> "err", ret |-> <<None, ErrorData("TimeoutError")>>,
             args |-> TimeoutArgs(calls[u], u)] @@ @]
    /\ UNCHANGED <<chan, tableVars, broadcast_que, nextUuid, envVars, floodHist, storeVars, directVars, fileVars>>

\* ------------------------------------- type_request: garbage correction
\* client.py:341-349, run by every request that reaches the end of
\* type_request; res is the node's waiter table as the handler left it
GarbageCorrection(n, res) ==
    /\ result' = [result EXCEPT ![n] = TrimResult(res)]
    /\ file_client_path' = [file_client_path EXCEPT ![n] = TrimResult(@)]
    /\ direct_cmd_result' = [direct_cmd_result EXCEPT ![n] = TrimResult(@)]
    /\ waiting_ack' = [waiting_ack EXCEPT ![n] = TrimWaitingAck(@)]
    /\ evicted' = [evicted EXCEPT ![n] = CountEvictions(@, Dropped(res, TrimResult(res)))]
    /\ trimmed' = [trimmed EXCEPT ![n] = CountEvictions(@,
                        MarkersOf(waiting_ack[n]) \ MarkersOf(TrimWaitingAck(waiting_ack[n])))]

\* --------------------------------------------- type_request: BROADCAST
\* client.py:160-175 and 333-349.  A dropped request returns before the
\* garbage correction; an admitted one is stored, published, re-emitted to
\* every neighbor but the incoming one, ACKed with the number of
\* re-emissions, and then the tables are pruned.
\* deny_list = [client], allow_list = None: every neighbor but the incoming
ReemitNobody(n, f) == {}

ReemitTargets(n, f) == SendTargets(n, client[n], {f})

BroadcastDropNoTable(n, u, data) ==
    \/ u \in MarkersOf(waiting_ack[n])
    \/ ~broadcast_check(n, data)

BroadcastDrop(n, u, data) ==
    \/ Include(result[n], u)
    \/ u \in MarkersOf(waiting_ack[n])
    \/ ~broadcast_check(n, data)

TypeRequestBroadcast(n, f) ==
    /\ HasMsg(n, f)
    /\ Msg(n, f).type = T_REQUEST
    /\ Msg(n, f).cmd = BROADCAST
    /\ LET m == Msg(n, f)
           u == m.uuid
       IN IF BroadcastDrop(n, u, m.data)
          THEN /\ chan' = Consume(chan, n, f)
               /\ UNCHANGED <<tableVars, broadcast_que, floodHist>>
          ELSE LET targets == ReemitTargets(n, f)
                   fwd == Envelope(T_REQUEST, BROADCAST, m.data, u)
                   ack == Envelope(T_ACK, BROADCAST, CountData(Cardinality(targets)), u)
               IN /\ broadcast_que' = [broadcast_que EXCEPT ![n] = Append(@, <<f, m>>)]
                  /\ chan' = _send_msg(_send_msg(Consume(chan, n, f), n, fwd, targets),
                                       n, ack, SendTargets(n, {f}, {}))
                  /\ admitted' = [admitted EXCEPT ![n][u] = @ + 1]
                  /\ GarbageCorrection(n, Put(result[n], u, <<f, EnvelopeData(m)>>))
    /\ UNCHANGED <<client, calls, nextUuid, envVars, storeVars, directVars, fileVars>>

\* ------------------------------------------------------------- type_ack
\* client.py:369-370 and 375-376: the entry is put only when the waiter
\* table does not include the uuid
StoreAlways(sd, u, it) ==
    IF Include(sd, u)
    THEN [i \in 1..Len(sd) |-> IF sd[i].uuid = u THEN [uuid |-> u, item |-> it] ELSE sd[i]]
    ELSE Put(sd, u, it)

StoreIfAbsent(sd, u, it) == IF Include(sd, u) THEN sd ELSE Put(sd, u, it)

\* client.py:373-377
TypeAck(n, f) ==
    /\ HasMsg(n, f)
    /\ Msg(n, f).type = T_ACK
    /\ LET m == Msg(n, f)
       IN result' = [result EXCEPT ![n] = StoreIfAbsent(@, m.uuid, <<f, m.data>>)]
    /\ chan' = Consume(chan, n, f)
    /\ UNCHANGED <<client, waiting_ack, file_client_path, direct_cmd_result,
                   broadcast_que, calls, nextUuid, envVars, floodHist, storeVars,
                   directVars, fileVars>>

\* ------------------------------------------------------------ remove_file
\* client.py:489-496
EmptyStore == [h \in FileNames |-> NoFile]
KeepFile(store, h) == store

remove_file(store, h) == [store EXCEPT ![Lower(h)] = NoFile]

\* history of share_file: the blob share_file returned digest h for and that
\* no removal has hit since; raced marks a removal that ran while
\* share_file was between open() and the end of the write
NotShared == [blob |-> NoFile, raced |-> FALSE]
Writing(n, h) == api[n].op = "share_file" /\ api[n].pc = "write" /\ sha256(api[n].b) = h
Unshared(n, h) == [blob |-> NoFile, raced |-> Writing(n, h)]

\* --------------------------------------------------- remove_file_by_master
\* client.py:498-507: the local blob goes first, then (file_hash, now) is
\* signed with the caller's key and send_command(FILE_DELETE) starts
\* (client.py:399-413)
RemoveFileByMaster(n, sk, h, pem) ==
    /\ nextUuid <= uuidLimit
    /\ n \in callers
    /\ UserIdle(n)
    /\ nextUuid' = nextUuid + 1
    /\ files' = [files EXCEPT ![n] = remove_file(@, h)]
    /\ shared' = [shared EXCEPT ![n][Lower(h)] = Unshared(n, Lower(h))]
    /\ LET raw == <<Lower(h), now>>
           data == DeleteData(raw, Sign(sk, raw), pem)
       IN IF client[n] = {}
          THEN /\ calls' = calls @@ (nextUuid :> [node |-> n, owner |-> 0, cmd |-> FILE_DELETE,
                               data |-> data, client |-> None, clients |-> {},
                               pc |-> "err", ret |-> <<None, ErrorData("ConnectionError")>>,
                               wait |-> DefaultWait, sent |-> {}])
               /\ UNCHANGED waiting_ack
          ELSE /\ calls' = calls @@ (nextUuid :> [node |-> n, owner |-> 0, cmd |-> FILE_DELETE,
                               data |-> data, client |-> None, clients |-> client[n],
                               pc |-> "send", ret |-> <<None, NoData>>,
                               wait |-> DefaultWait, sent |-> {}])
               /\ waiting_ack' = [waiting_ack EXCEPT ![n] = MarkWaitingAck(@, nextUuid)]
    /\ UNCHANGED <<netVars, result, file_client_path, direct_cmd_result, broadcast_que,
                   envVars, floodHist, now, handled, directVars, fileVars>>

\* -------------------------------------------- type_request: FILE_DELETE
\* client.py:285-314 and 333-349
HasDeleteFields(data) == data.k = "delete"
Abs(x) == IF x < 0 THEN -x ELSE x
NeverOld(t) == FALSE

OldSignature(t) == Abs(now - t) > SignatureMaxAge

TypeRequestFileDelete(n, f) ==
    /\ HasMsg(n, f)
    /\ Msg(n, f).type = T_REQUEST
    /\ Msg(n, f).cmd = FILE_DELETE
    /\ LET m == Msg(n, f)
           u == m.uuid
       IN IF \/ ~HasDeleteFields(m.data)
             \/ OldSignature(m.data.v.raw[2])
             \/ Include(result[n], u)
             \/ u \in MarkersOf(waiting_ack[n])
          THEN \* one of the four early returns
               /\ chan' = Consume(chan, n, f)
               /\ UNCHANGED <<tableVars, floodHist, files, handled, shared>>
          ELSE LET d == m.data.v
                   stored == Put(result[n], u, <<f, EnvelopeData(m)>>)
                   entry == [node |-> n, from |-> f, uuid |-> u,
                             age |-> Abs(now - d.raw[2])]
               IN IF d.pem \notin InstalledPems
                  THEN \* open() of the pem file raises FileNotFoundError, which
                       \* only the dispatcher catches: nothing is sent or pruned
                       /\ result' = [result EXCEPT ![n] = stored]
                       /\ chan' = Consume(chan, n, f)
                       /\ handled' = handled \cup {entry @@ [sigok |-> FALSE,
                               removed |-> FALSE, reemit |-> {}, acked |-> FALSE]}
                       /\ UNCHANGED <<waiting_ack, file_client_path, direct_cmd_result,
                                      floodHist, files, shared>>
                  ELSE IF ~Verify(d.pem, d.raw, d.sign)
                  THEN \* ValueError: allow_list = [], the ACK list is kept
                       LET ack == Envelope(T_ACK, FILE_DELETE, CountData(0), u)
                       IN /\ chan' = _send_msg(Consume(chan, n, f), n, ack,
                                               SendTargets(n, {f}, {}))
                          /\ handled' = handled \cup {entry @@ [sigok |-> FALSE,
                                  removed |-> FALSE, reemit |-> {},
                                  acked |-> f \in client[n]]}
                          /\ GarbageCorrection(n, stored)
                          /\ UNCHANGED <<admitted, files, shared>>
                  ELSE LET targets == ReemitTargets(n, f)
                           fwd == Envelope(T_REQUEST, FILE_DELETE, m.data, u)
                           ack == Envelope(T_ACK, FILE_DELETE,
                                           CountData(Cardinality(targets)), u)
                       IN /\ files' = [files EXCEPT ![n] = remove_file(@, d.raw[1])]
                          /\ shared' = [shared EXCEPT ![n][Lower(d.raw[1])] = Unshared(n, Lower(d.raw[1]))]
                          /\ chan' = _send_msg(_send_msg(Consume(chan, n, f), n, fwd, targets),
                                               n, ack, SendTargets(n, {f}, {}))
                          /\ handled' = handled \cup {entry @@ [sigok |-> TRUE,
                                  removed |-> Exists(files[n], Lower(d.raw[1])),
                                  reemit |-> targets, acked |-> f \in client[n]]}
                          /\ GarbageCorrection(n, stored)
                          /\ UNCHANGED admitted
    /\ UNCHANGED <<client, broadcast_que, calls, nextUuid, envVars, now,
                   directVars, fileVars>>

\* time passes
Tick ==
    /\ now < MaxClock
    /\ now' = now + ClockStep
    /\ UNCHANGED <<netVars, tableVars, broadcast_que, calls, nextUuid, envVars,
                   floodHist, files, handled, shared, directVars, fileVars>>

\* ------------------------------------- send_command with a target
\* client.py:399-426 for FILE_CHECK and DIRECT_CMD: ConnectionError when
\* there is no neighbor or the target is not one
Pending == <<None, NoData>>
Directed(n, owner, cmd, data, c) ==
    [node |-> n, owner |-> owner, cmd |-> cmd, data |-> data, client |-> c,
     clients |-> {c} \cap client[n],
     pc |-> IF c \in client[n] THEN "send" ELSE "err",
     ret |-> IF c \in client[n] THEN Pending ELSE <<None, ErrorData("ConnectionError")>>,
     wait |-> DefaultWait, sent |-> {}]

\* client.py:414-419 for FILE_GET: the relay-path entry is put before the
\* two assertions
Sender == "I'm Sender."
DirectedFileGet(n, owner, data, c) ==
    [node |-> n, owner |-> owner, cmd |-> FILE_GET, data |-> data, client |-> c,
     clients |-> {c} \cap client[n],
     pc |-> IF c \in client[n] THEN "send" ELSE "err",
     ret |-> IF client[n] = {} THEN <<None, ErrorData("ConnectionError")>>
             ELSE IF c \in client[n] THEN Pending
             ELSE <<None, ErrorData("AssertionError")>>,
     wait |-> FileGetWait, sent |-> {}]
PathOfFileGet(n, u, c) ==
    IF client[n] = {} THEN file_client_path[n]
    ELSE Put(file_client_path[n], u, <<Sender, c>>)

Finished(u) == u \in DOMAIN calls /\ calls[u].pc \in {"ret", "err"}

\* ------------------------------------------------------------ share_file
\* client.py:447-455.  open(mode='bw') creates or empties the file, the
\* write fills it: another thread of the node can run in between
\* todo: the calls the application of the node still makes, in order
IdleApi(todo) ==
    [op |-> "none", pc |-> "idle", h |-> NoFile, b |-> NoFile, left |-> {},
     cur |-> 0, hopeful |-> None, ret |-> NoData, sent |-> 0, todo |-> todo]
CanCall(n, op) ==
    /\ UserIdle(n)
    /\ api[n].todo # <<>>
    /\ Head(api[n].todo) = op
ApiCall(n, op) ==
    [IdleApi(Tail(api[n].todo)) EXCEPT !.op = op]
ApiReturn(a, ret) == [a EXCEPT !.pc = "idle", !.ret = ret]

\* os.remove of a file that is open unlinks the name; what is written
\* afterwards is not reachable under it
LoseWrite(store, h, b) == store

WriteFile(store, h, b) == IF Exists(store, h) THEN [store EXCEPT ![h] = b] ELSE store

ShareFile(n, b) ==
    /\ CanCall(n, "share_file")
    /\ IF b = TooBig
       THEN /\ api' = [api EXCEPT ![n] =
                        ApiReturn([ApiCall(n, "share_file") EXCEPT !.b = b],
                                  ErrorData("AssertionError"))]
            /\ UNCHANGED <<files, shared>>
       ELSE /\ api' = [api EXCEPT ![n] =
                        [ApiCall(n, "share_file") EXCEPT !.b = b, !.h = sha256(b), !.pc = "write"]]
            /\ files' = [files EXCEPT ![n][sha256(b)] = Partial]
            /\ shared' = [shared EXCEPT ![n][sha256(b)] = NotShared]
    /\ UNCHANGED <<netVars, tableVars, broadcast_que, calls, nextUuid, envVars,
                   floodHist, now, handled, directVars, tasks, forged>>

ShareFileWrite(n) ==
    /\ api[n].op = "share_file"
    /\ api[n].pc = "write"
    /\ files' = [files EXCEPT ![n] = WriteFile(@, api[n].h, api[n].b)]
    /\ shared' = [shared EXCEPT ![n][api[n].h] = [blob |-> api[n].b, raced |-> @.raced]]
    /\ api' = [api EXCEPT ![n] = ApiReturn(@, [k |-> "hash", v |-> api[n].h])]
    /\ UNCHANGED <<netVars, tableVars, broadcast_que, calls, nextUuid, envVars,
                   floodHist, now, handled, directVars, tasks, forged>>

\* client.py:489-496, called by the application
RemoveFile(n, h) ==
    /\ CanCall(n, "remove_file")
    /\ files' = [files EXCEPT ![n] = remove_file(@, h)]
    /\ shared' = [shared EXCEPT ![n][Lower(h)] = Unshared(n, Lower(h))]
    /\ api' = [api EXCEPT ![n] =
                ApiReturn([ApiCall(n, "remove_file") EXCEPT !.h = h],
                          [k |-> "bool", v |-> Exists(files[n], Lower(h))])]
    /\ UNCHANGED <<netVars, tableVars, broadcast_que, calls, nextUuid, envVars,
                   floodHist, now, handled, directVars, tasks, forged>>

\* -------------------------------------------------------------- get_file
\* client.py:457-461: the local blob, os.path.exists and then open().read()
GetFile(n, h) ==
    /\ CanCall(n, "get_file")
    /\ LET a == [ApiCall(n, "get_file") EXCEPT !.h = h]
       IN api' = [api EXCEPT ![n] =
            IF Exists(files[n], Lower(h)) THEN [a EXCEPT !.pc = "read"]
            ELSE IF client[n] = {}
                 THEN ApiReturn(a, ErrorData("FileReceiveError"))
                 ELSE [a EXCEPT !.pc = "check", !.left = client[n]]]
    /\ UNCHANGED <<netVars, tableVars, broadcast_que, calls, nextUuid, envVars,
                   floodHist, storeVars, directVars, tasks, forged>>

GetFileRead(n) ==
    /\ api[n].op = "get_file"
    /\ api[n].pc = "read"
    /\ api' = [api EXCEPT ![n] = ApiReturn(@,
                IF Exists(files[n], Lower(api[n].h))
                THEN RawData(files[n][Lower(api[n].h)])
                ELSE ErrorData("FileNotFoundError"))]
    /\ UNCHANGED <<netVars, tableVars, broadcast_que, calls, nextUuid, envVars,
                   floodHist, storeVars, directVars, tasks, forged>>

\* client.py:466-473: FILE_CHECK to the neighbors in a shuffled order, until
\* one has the blob; random.choice when none has
GetFileCheck(n, c) ==
    /\ api[n].op = "get_file"
    /\ api[n].pc = "check"
    /\ c \in api[n].left
    /\ nextUuid <= fileUuidLimit
    /\ nextUuid' = nextUuid + 1
    /\ calls' = calls @@ (nextUuid :>
            Directed(n, 0, FILE_CHECK, CheckData(Lower(api[n].h), 0), c))
    /\ api' = [api EXCEPT ![n].pc = "checking", ![n].cur = nextUuid,
                          ![n].left = @ \ {c}, ![n].sent = @ + 1]
    /\ UNCHANGED <<netVars, tableVars, broadcast_que, envVars, floodHist, storeVars,
                   directVars, tasks, forged>>

GetFileChecked(n) ==
    /\ api[n].op = "get_file"
    /\ api[n].pc = "checking"
    /\ Finished(api[n].cur)
    /\ LET c == calls[api[n].cur]
           msg == c.ret[2]
       IN api' = [api EXCEPT ![n] =
            IF c.pc = "err" THEN ApiReturn(@, msg)
            ELSE IF msg.k # "have" THEN ApiReturn(@, ErrorData("TypeError"))
            ELSE IF msg.v.have THEN [@ EXCEPT !.pc = "get", !.hopeful = c.client]
            ELSE IF @.left # {} THEN [@ EXCEPT !.pc = "check"]
            ELSE [@ EXCEPT !.pc = "choose"]]
    /\ UNCHANGED <<netVars, tableVars, broadcast_que, calls, nextUuid, envVars,
                   floodHist, storeVars, directVars, tasks, forged>>

GetFileChoose(n, c) ==
    /\ api[n].op = "get_file"
    /\ api[n].pc = "choose"
    /\ IF client[n] = {}
       THEN c = n /\ api' = [api EXCEPT ![n] = ApiReturn(@, ErrorData("IndexError"))]
       ELSE c \in client[n] /\ api' = [api EXCEPT ![n].pc = "get", ![n].hopeful = c]
    /\ UNCHANGED <<netVars, tableVars, broadcast_que, calls, nextUuid, envVars,
                   floodHist, storeVars, directVars, tasks, forged>>

\* client.py:475-478
GetFileGet(n) ==
    /\ api[n].op = "get_file"
    /\ api[n].pc = "get"
    /\ nextUuid <= fileUuidLimit
    /\ nextUuid' = nextUuid + 1
    /\ calls' = calls @@ (nextUuid :>
            DirectedFileGet(n, 0, GetData(Lower(api[n].h), client[n]), api[n].hopeful))
    /\ file_client_path' = [file_client_path EXCEPT ![n] =
            PathOfFileGet(n, nextUuid, api[n].hopeful)]
    /\ api' = [api EXCEPT ![n].pc = "getting", ![n].cur = nextUuid, ![n].sent = @ + 1]
    /\ UNCHANGED <<netVars, result, waiting_ack, direct_cmd_result, broadcast_que,
                   envVars, floodHist, storeVars, directVars, tasks, forged>>

\* client.py:479-487: null, the hash check, the write
AnyBytesMatch(raw, h) == TRUE

HashMatches(raw, h) == sha256(raw) = h

GetFileGot(n) ==
    /\ api[n].op = "get_file"
    /\ api[n].pc = "getting"
    /\ Finished(api[n].cur)
    /\ LET c == calls[api[n].cur]
           raw == c.ret[2]
           h == Lower(api[n].h)
       IN IF c.pc = "ret" /\ raw.k = "raw" /\ HashMatches(raw.v, h)
          THEN /\ api' = [api EXCEPT ![n].pc = "write", ![n].b = raw.v]
               /\ files' = [files EXCEPT ![n][h] = Partial]
          ELSE /\ api' = [api EXCEPT ![n] = ApiReturn(@,
                        IF c.pc = "err" THEN raw
                        ELSE IF raw.k \in {"none", "raw"} THEN ErrorData("FileReceiveError")
                        ELSE ErrorData("TypeError"))]
               /\ UNCHANGED files
    /\ UNCHANGED <<netVars, tableVars, broadcast_que, calls, nextUuid, envVars,
                   floodHist, now, handled, shared, directVars, tasks, forged>>

GetFileWrite(n) ==
    /\ api[n].op = "get_file"
    /\ api[n].pc = "write"
    /\ files' = [files EXCEPT ![n] = WriteFile(@, Lower(api[n].h), api[n].b)]
    /\ api' = [api EXCEPT ![n] = ApiReturn(@, RawData(api[n].b))]
    /\ UNCHANGED <<netVars, tableVars, broadcast_que, calls, nextUuid, envVars,
                   floodHist, now, handled, shared, directVars, tasks, forged>>

\* ---------------------------------------------- type_request: FILE_CHECK
\* client.py:195-202 and 333-349: have / asked go back to the asking
\* neighbor, then the tables are pruned
Learn(n, us) == IF n \in hostile THEN [forged EXCEPT !.seen = @ \cup us] ELSE forged

TypeRequestFileCheck(n, f) ==
    /\ HasMsg(n, f)
    /\ Msg(n, f).type = T_REQUEST
    /\ Msg(n, f).cmd = FILE_CHECK
    /\ LET m == Msg(n, f)
           d == m.data.v
           answer == HaveData(Exists(files[n], d.hash), Include(file_client_path[n], d.uuid))
       IN /\ chan' = _send_msg(Consume(chan, n, f), n,
                               Envelope(T_RESPONSE, FILE_CHECK, answer, m.uuid),
                               SendTargets(n, {f}, {}))
          /\ forged' = Learn(n, {m.uuid, d.uuid})
    /\ GarbageCorrection(n, result[n])
    /\ UNCHANGED <<client, broadcast_que, calls, nextUuid, envVars, admitted,
                   storeVars, directVars, api, tasks>>

\* ------------------------------------------------ type_request: FILE_GET
\* client.py:273-283 and 333-349: a Sending thread when the blob is in the
\* store, an Asking thread when it is not; the handler sends nothing itself
Task(n, f, m, kind) ==
    [node |-> n, kind |-> kind, from |-> f, uuid |-> m.uuid, hash |-> m.data.v.hash,
     asked |-> m.data.v.asked, pc |-> "start", first |-> {}, last |-> {},
     cand |-> <<>>, cur |-> 0, hopeful |-> None]

TypeRequestFileGet(n, f) ==
    /\ HasMsg(n, f)
    /\ Msg(n, f).type = T_REQUEST
    /\ Msg(n, f).cmd = FILE_GET
    /\ LET m == Msg(n, f)
       IN /\ tasks' = Append(tasks, Task(n, f, m,
                        IF Exists(files[n], m.data.v.hash) THEN "sending" ELSE "asking"))
          /\ forged' = Learn(n, {m.uuid})
    /\ chan' = Consume(chan, n, f)
    /\ GarbageCorrection(n, result[n])
    /\ UNCHANGED <<client, broadcast_que, calls, nextUuid, envVars, admitted,
                   storeVars, directVars, api>>

\* client.py:264-272: the file is read (FileNotFoundError ends the thread),
\* the relay path is recorded, the bytes go to the asking neighbor
Sending(t) ==
    /\ t \in DOMAIN tasks
    /\ tasks[t].kind = "sending"
    /\ tasks[t].pc = "start"
    /\ LET k == tasks[t]
           n == k.node
       IN IF Exists(files[n], k.hash)
          THEN /\ file_client_path' = [file_client_path EXCEPT ![n] =
                        Put(@, k.uuid, <<k.from, k.from>>)]
               /\ chan' = _send_msg(chan, n,
                        Envelope(T_RESPONSE, FILE_GET, RawData(files[n][k.hash]), k.uuid),
                        SendTargets(n, {k.from}, {}))
               /\ tasks' = [tasks EXCEPT ![t].pc = "done"]
          ELSE /\ tasks' = [tasks EXCEPT ![t].pc = "dead"]
               /\ UNCHANGED <<chan, file_client_path>>
    /\ UNCHANGED <<client, result, waiting_ack, direct_cmd_result, broadcast_que, calls,
                   nextUuid, envVars, floodHist, storeVars, directVars, api, forged>>

\* client.py:206-215: the neighbors the requester named go last
AskingStart(t) ==
    /\ t \in DOMAIN tasks
    /\ tasks[t].kind = "asking"
    /\ tasks[t].pc = "start"
    /\ LET n == tasks[t].node
           nears == tasks[t].asked \cap client[n]
       IN tasks' = [tasks EXCEPT ![t].first = client[n] \ nears, ![t].last = nears,
                                 ![t].pc = IF client[n] = {} THEN "over" ELSE "loop"]
    /\ UNCHANGED <<netVars, tableVars, broadcast_que, calls, nextUuid, envVars,
                   floodHist, storeVars, directVars, api, forged>>

\* client.py:219-225: FILE_CHECK to the next neighbor of the shuffled list
AskingCheck(t, c) ==
    /\ t \in DOMAIN tasks
    /\ tasks[t].kind = "asking"
    /\ tasks[t].pc = "loop"
    /\ c \in (IF tasks[t].first # {} THEN tasks[t].first ELSE tasks[t].last)
    /\ nextUuid <= fileUuidLimit
    /\ nextUuid' = nextUuid + 1
    /\ calls' = calls @@ (nextUuid :>
            Directed(tasks[t].node, t, FILE_CHECK, CheckData(tasks[t].hash, tasks[t].uuid), c))
    /\ tasks' = [tasks EXCEPT ![t].pc = "checking", ![t].cur = nextUuid,
                              ![t].first = @ \ {c}, ![t].last = @ \ {c}]
    /\ UNCHANGED <<netVars, tableVars, broadcast_que, envVars, floodHist, storeVars,
                   directVars, api, forged>>

\* client.py:223-234: an exception of send_command skips the neighbor; have
\* ends the walk, not asked makes a candidate
AskingChecked(t) ==
    /\ t \in DOMAIN tasks
    /\ tasks[t].kind = "asking"
    /\ tasks[t].pc = "checking"
    /\ Finished(tasks[t].cur)
    /\ LET k == tasks[t]
           c == calls[k.cur]
           data == c.ret[2]
           more == IF k.first \cup k.last # {} THEN "loop" ELSE "over"
       IN tasks' = [tasks EXCEPT ![t] =
            IF c.pc = "err" THEN [@ EXCEPT !.pc = more]
            ELSE IF data.k # "have" THEN [@ EXCEPT !.pc = "dead"]
            ELSE IF data.v.have THEN [@ EXCEPT !.pc = "get", !.hopeful = c.client]
            ELSE IF ~data.v.asked THEN [@ EXCEPT !.pc = more, !.cand = Append(@, c.client)]
            ELSE [@ EXCEPT !.pc = more]]
    /\ UNCHANGED <<netVars, tableVars, broadcast_que, calls, nextUuid, envVars,
                   floodHist, storeVars, directVars, api, forged>>

\* client.py:235-243: nobody has the blob; null goes back when there is no
\* candidate, else the first candidate is asked
AskingOver(t) ==
    /\ t \in DOMAIN tasks
    /\ tasks[t].kind = "asking"
    /\ tasks[t].pc = "over"
    /\ LET k == tasks[t]
       IN IF k.cand = <<>>
          THEN /\ chan' = _send_msg(chan, k.node,
                        Envelope(T_RESPONSE, FILE_GET, NoData, k.uuid),
                        SendTargets(k.node, {k.from}, {}))
               /\ tasks' = [tasks EXCEPT ![t].pc = "done"]
          ELSE /\ tasks' = [tasks EXCEPT ![t].pc = "get", ![t].hopeful = k.cand[1]]
               /\ UNCHANGED chan
    /\ UNCHANGED <<client, tableVars, broadcast_que, calls, nextUuid, envVars,
                   floodHist, storeVars, directVars, api, forged>>

\* client.py:246-250: the relay path of the request, then
\* send_command(FILE_GET) to the hopeful neighbor
AskingGet(t) ==
    /\ t \in DOMAIN tasks
    /\ tasks[t].kind = "asking"
    /\ tasks[t].pc = "get"
    /\ nextUuid <= fileUuidLimit
    /\ nextUuid' = nextUuid + 1
    /\ LET k == tasks[t]
           n == k.node
           relay == Put(file_client_path[n], k.uuid, <<k.from, k.hopeful>>)
       IN /\ calls' = calls @@ (nextUuid :>
                DirectedFileGet(n, t, GetData(k.hash, client[n]), k.hopeful))
          /\ file_client_path' = [file_client_path EXCEPT ![n] =
                IF client[n] = {} THEN relay
                ELSE Put(relay, nextUuid, <<Sender, k.hopeful>>)]
    /\ tasks' = [tasks EXCEPT ![t].pc = "getting", ![t].cur = nextUuid]
    /\ UNCHANGED <<netVars, result, waiting_ack, direct_cmd_result, broadcast_que,
                   envVars, floodHist, storeVars, directVars, api, forged>>

\* client.py:250-261: what send_command returned, or null after any
\* exception, goes back to the asking neighbor
AskingGot(t) ==
    /\ t \in DOMAIN tasks
    /\ tasks[t].kind = "asking"
    /\ tasks[t].pc = "getting"
    /\ Finished(tasks[t].cur)
    /\ LET k == tasks[t]
           c == calls[k.cur]
           data == IF c.pc = "err" THEN NoData ELSE c.ret[2]
       IN chan' = _send_msg(chan, k.node, Envelope(T_RESPONSE, FILE_GET, data, k.uuid),
                            SendTargets(k.node, {k.from}, {}))
    /\ tasks' = [tasks EXCEPT ![t].pc = "done"]
    /\ UNCHANGED <<client, tableVars, broadcast_que, calls, nextUuid, envVars,
                   floodHist, storeVars, directVars, api, forged>>

\* --------------------------------------------------------- type_response
\* client.py:353-371: a FILE_GET response of a uuid with a relay-path entry
\* is taken from the recorded ship_to only
OriginNever(n, f, m) == FALSE

OriginOk(n, f, m) ==
    ~(/\ m.cmd = FILE_GET
      /\ Include(file_client_path[n], m.uuid)
      /\ Get(file_client_path[n], m.uuid)[2] # f)

TypeResponse(n, f) ==
    /\ HasMsg(n, f)
    /\ Msg(n, f).type = T_RESPONSE
    /\ LET m == Msg(n, f)
       IN result' = [result EXCEPT ![n] =
            IF OriginOk(n, f, m) THEN StoreIfAbsent(@, m.uuid, <<f, m.data>>) ELSE @]
    /\ chan' = Consume(chan, n, f)
    /\ UNCHANGED <<client, waiting_ack, file_client_path, direct_cmd_result,
                   broadcast_que, calls, nextUuid, envVars, floodHist, storeVars,
                   directVars, fileVars>>

\* ------------------------------------------------------- hostile neighbor
\* a connected neighbor may send any envelope; it takes the uuid from an
\* envelope it has read
ForgedEnvelopes(u) ==
    {Envelope(T_RESPONSE, FILE_GET, RawData("b2"), u),
     Envelope(T_ACK, FILE_GET, RawData("b2"), u),
     Envelope(T_REQUEST, BROADCAST, PayloadData("X"), u)}

Forge(x, n, m) ==
    /\ x \in hostile
    /\ n \in client[x]
    /\ forged.sent < MaxForged
    /\ m.uuid \in forged.seen
    /\ m \in ForgedEnvelopes(m.uuid)
    /\ chan' = _send_msg(chan, x, m, {n})
    /\ forged' = [forged EXCEPT !.sent = @ + 1, !.log = Append(@, <<n, m>>)]
    /\ UNCHANGED <<client, tableVars, broadcast_que, calls, nextUuid, envVars,
                   floodHist, storeVars, directVars, api, tasks>>

\* ------------------------------------------------ send_command: DIRECT_CMD
\* client.py:399-426 with cmd DIRECT_CMD: the named neighbor, or
\* random.choice of the neighbors when none is named
SendCommandDirect(n, c, p) ==
    /\ nextUuid <= uuidLimit
    /\ n \in callers
    /\ UserIdle(n)
    /\ nextUuid' = nextUuid + 1
    /\ calls' = calls @@ (nextUuid :> Directed(n, 0, DIRECT_CMD, PayloadData(p), c))
    /\ UNCHANGED <<netVars, tableVars, broadcast_que, envVars, floodHist, storeVars,
                   directVars, fileVars>>

\* --------------------------------------------- type_request: DIRECT_CMD
\* client.py:316-349: the item is published on direct_cmd_que, a DirectCmd
\* thread starts with c = 200, the handler sends nothing and prunes
TypeRequestDirectCmd(n, f) ==
    /\ HasMsg(n, f)
    /\ Msg(n, f).type = T_REQUEST
    /\ Msg(n, f).cmd = DIRECT_CMD
    /\ LET m == Msg(n, f)
       IN /\ direct_cmd_que' = [direct_cmd_que EXCEPT ![n] = Append(@, <<m.uuid, m.data>>)]
          /\ direct' = Append(direct, [node |-> n, from |-> f, uuid |-> m.uuid,
                                       c |-> DirectPolls, polls |-> 0, pc |-> "loop"])
    /\ chan' = Consume(chan, n, f)
    /\ GarbageCorrection(n, result[n])
    /\ UNCHANGED <<client, broadcast_que, calls, nextUuid, envVars, admitted,
                   storeVars, fileVars>>

\* the application of node n, a subscriber of direct_cmd_que, deposits its
\* reply to a published item in direct_cmd_result
Reply == PayloadData("reply")
DepositReply(n, i) ==
    /\ n \in responders
    /\ i \in 1..Len(direct_cmd_que[n])
    /\ ~Include(direct_cmd_result[n], direct_cmd_que[n][i][1])
    /\ direct_cmd_result' = [direct_cmd_result EXCEPT ![n] =
            Put(@, direct_cmd_que[n][i][1], Reply)]
    /\ UNCHANGED <<netVars, result, waiting_ack, file_client_path, broadcast_que, calls,
                   nextUuid, envVars, floodHist, storeVars, directVars, fileVars>>

\* client.py:318-327, one turn of the loop: while c > 0, sleep, look for the
\* reply; nothing in the loop changes c.  polls counts the turns taken
MaxPolls == DirectPolls + 1
DirectCmdPoll(t) ==
    /\ t \in DOMAIN direct
    /\ direct[t].pc = "loop"
    /\ LET d == direct[t]
           n == d.node
           found == Include(direct_cmd_result[n], d.uuid)
           data == IF d.c > 0 THEN Get(direct_cmd_result[n], d.uuid) ELSE NoData
       IN IF d.c > 0 /\ ~found
          THEN /\ d.polls < MaxPolls
               /\ direct' = [direct EXCEPT ![t].polls = @ + 1]
               /\ UNCHANGED chan
          ELSE /\ direct' = [direct EXCEPT ![t].pc = "done",
                                           ![t].polls = IF d.c > 0 THEN @ + 1 ELSE @]
               /\ chan' = _send_msg(chan, n, Envelope(T_RESPONSE, DIRECT_CMD, data, d.uuid),
                                    SendTargets(n, {d.from}, {}))
    /\ UNCHANGED <<client, tableVars, broadcast_que, calls, nextUuid, envVars,
                   floodHist, storeVars, direct_cmd_que, fileVars>>

\* ------------------------------------------------ send_command, any call
\* client.py:398-426 as a whole: cmd, client (given, None when left out) and
\* wait (arg) are the caller's; pick is what random.choice returns
CommandData(n, cmd) ==
    IF cmd = BROADCAST THEN PayloadData("X")
    ELSE IF cmd = FILE_DELETE
         THEN DeleteData(<<"h2", now>>, Sign("master", <<"h2", now>>), "public.master.pem")
    ELSE IF cmd = FILE_GET THEN GetData("h1", client[n])
    ELSE IF cmd = FILE_CHECK THEN CheckData("h1", 0)
    ELSE PayloadData("X")

Call(n, cmd, given, arg) ==
    [node |-> n, owner |-> 0, cmd |-> cmd, data |-> CommandData(n, cmd),
     given |-> given, arg |-> arg, had |-> client[n], sent |-> {}]
Raise(call, e) ==
    call @@ [client |-> call.given, clients |-> {}, pc |-> "err",
             ret |-> <<None, ErrorData(e)>>, wait |-> call.arg]
Go(call, c, cs, wait) ==
    call @@ [client |-> c, clients |-> cs, pc |-> "send", ret |-> Pending, wait |-> wait]

SendCommand(n, cmd, given, arg, pick) ==
    /\ nextUuid <= uuidLimit
    /\ n \in callers
    /\ UserIdle(n)
    /\ nextUuid' = nextUuid + 1
    /\ LET u == nextUuid
           call == Call(n, cmd, given, arg)
       IN IF client[n] = {}
          THEN /\ pick = None
               /\ calls' = calls @@ (u :> Raise(call, "ConnectionError"))
               /\ UNCHANGED <<waiting_ack, file_client_path>>
          ELSE IF cmd \in {BROADCAST, FILE_DELETE}
          THEN /\ pick = None
               /\ calls' = calls @@ (u :> Go(call, given, client[n], arg))
               /\ waiting_ack' = [waiting_ack EXCEPT ![n] = MarkWaitingAck(@, u)]
               /\ UNCHANGED file_client_path
          ELSE IF cmd = FILE_GET
          THEN /\ pick = None
               /\ file_client_path' = [file_client_path EXCEPT ![n] = Put(@, u, <<Sender, given>>)]
               /\ calls' = calls @@ (u :>
                    IF given \in client[n] THEN Go(call, given, {given}, FileGetWait)
                    ELSE Raise(call, "AssertionError"))
               /\ UNCHANGED waiting_ack
          ELSE IF given = None
          THEN /\ pick \in client[n]
               /\ calls' = calls @@ (u :> Go(call, pick, {pick}, arg))
               /\ UNCHANGED <<waiting_ack, file_client_path>>
          ELSE /\ pick = None
               /\ calls' = calls @@ (u :>
                    IF given \in client[n] THEN Go(call, given, {given}, arg)
                    ELSE Raise(call, "ConnectionError"))
               /\ UNCHANGED <<waiting_ack, file_client_path>>
    /\ UNCHANGED <<netVars, result, direct_cmd_result, broadcast_que, envVars, floodHist,
                   storeVars, directVars, fileVars>>

\* ------------------------------------------- type_request: PING_PONG
\* client.py:154-158 and 333-349
PongData(ping, pong) == [k |-> "pong", v |-> [ping |-> ping, pong |-> pong]]
TypeRequestPingPong(n, f) ==
    /\ HasMsg(n, f)
    /\ Msg(n, f).type = T_REQUEST
    /\ Msg(n, f).cmd = PING_PONG
    /\ LET m == Msg(n, f)
       IN chan' = _send_msg(Consume(chan, n, f), n,
                            Envelope(T_RESPONSE, PING_PONG, PongData(m.data, now), m.uuid),
                            SendTargets(n, {f}, {}))
    /\ GarbageCorrection(n, result[n])
    /\ UNCHANGED <<client, broadcast_que, calls, nextUuid, envVars, admitted,
                   storeVars, directVars, fileVars>>

\* ------------------------------------------------ start.processing, close
\* The dispatcher loop on its own: what it does with an item depends on
\* what bjson.loads makes of the bytes, on the type of the envelope and on
\* whether the handler raises.
\*   undecodable: bjson.loads raises BJsonDecodeError (client.py:108, 119)
\*   unknown:     an envelope whose type is none of the three (client.py:116-117)
\*   ack:         an ACK envelope (client.py:114-115)
\*   raising:     a FILE_CHECK request whose data is null: msg['data']['hash']
\*                raises TypeError (client.py:196)
\* text tells whether the bytes of the item are valid UTF-8, what
\* raw_byte_msg.decode() needs (client.py:126); only the except clause
\* looks at it
ItemKinds == {"undecodable", "unknown", "ack", "raising"}
Items ==
    {[kind |-> "undecodable", text |-> FALSE], [kind |-> "unknown", text |-> TRUE],
     [kind |-> "ack", text |-> FALSE],
     [kind |-> "raising", text |-> TRUE], [kind |-> "raising", text |-> FALSE]}
Sentinel == [from |-> None, kind |-> None, text |-> TRUE]
Inbound(f, it) == [from |-> f, kind |-> it.kind, text |-> it.text]
AckOfItem == Envelope(T_ACK, PING_PONG, CountData(0), 0)

Running == [pc |-> "top", item |-> Sentinel]
NotStarted == [pc |-> "none", item |-> Sentinel]
NotClosing == [pc |-> "idle", idx |-> 0, order |-> <<>>]

\* the transport puts what a connected neighbor sent on the inbound queue
Receive(n, f, it) ==
    /\ f \in client[n]
    /\ Len(arrived[n]) + Len(stream_que[n]) < MaxItems
    /\ proc[n].pc \in {"top", "get", "busy"}
    /\ stream_que' = [stream_que EXCEPT ![n] = Append(@, Inbound(f, it))]
    /\ UNCHANGED <<netVars, tableVars, broadcast_que, calls, nextUuid, uuidLimit, callers,
                   accepts, responders, hostile, threadVars, floodHist, storeVars, directVars, fileVars,
                   f_stop, f_finish, proc, closer, arrived>>

\* client.py:103 and 127-129: the loop condition, and the end of the thread
ProcessingTop(n) ==
    /\ proc[n].pc = "top"
    /\ IF f_stop[n]
       THEN /\ proc' = [proc EXCEPT ![n].pc = "finished"]
            /\ f_finish' = [f_finish EXCEPT ![n] = TRUE]
       ELSE /\ proc' = [proc EXCEPT ![n].pc = "get"]
            /\ UNCHANGED f_finish
    /\ UNCHANGED <<netVars, tableVars, broadcast_que, calls, nextUuid, uuidLimit, callers,
                   accepts, responders, hostile, threadVars, floodHist, storeVars, directVars, fileVars,
                   stream_que, f_stop, closer, arrived>>

\* client.py:105-107: the blocking get; the sentinel breaks the loop
ProcessingGet(n) ==
    /\ proc[n].pc = "get"
    /\ stream_que[n] # <<>>
    /\ stream_que' = [stream_que EXCEPT ![n] = Tail(@)]
    /\ IF Head(stream_que[n]).from = None
       THEN /\ proc' = [proc EXCEPT ![n].pc = "finished"]
            /\ f_finish' = [f_finish EXCEPT ![n] = TRUE]
       ELSE /\ proc' = [proc EXCEPT ![n] = [pc |-> "busy", item |-> Head(stream_que[n])]]
            /\ UNCHANGED f_finish
    /\ UNCHANGED <<netVars, tableVars, broadcast_que, calls, nextUuid, uuidLimit, callers,
                   accepts, responders, hostile, threadVars, floodHist, storeVars, directVars, fileVars,
                   f_stop, closer, arrived>>

\* client.py:126: str.decode() of bytes that are not valid UTF-8 raises
\* UnicodeDecodeError, inside the except clause
DecodesAsText(it) == it.text

\* client.py:108-126: decode, route by type, the two except clauses.  An
\* exception raised inside the except clause leaves the thread
Outcome(it) ==
    IF it.kind = "undecodable" THEN "removed"
    ELSE IF it.kind = "unknown" THEN "discarded"
    ELSE IF it.kind = "ack" THEN "handled"
    ELSE IF DecodesAsText(it) THEN "logged" ELSE "died"

ProcessingHandle(n) ==
    /\ proc[n].pc = "busy"
    /\ LET it == proc[n].item
           out == Outcome(it)
       IN /\ client' = IF out = "removed" THEN RemoveConnection(client, n, it.from) ELSE client
          /\ result' = IF out = "handled"
                       THEN [result EXCEPT ![n] =
                                StoreIfAbsent(@, AckOfItem.uuid, <<it.from, AckOfItem.data>>)]
                       ELSE result
          /\ proc' = [proc EXCEPT ![n].pc = IF out = "died" THEN "dead" ELSE "top"]
          /\ arrived' = [arrived EXCEPT ![n] = Append(@,
                            [from |-> it.from, kind |-> it.kind, text |-> it.text,
                             outcome |-> out, connected |-> it.from \in client'[n],
                             finished |-> f_finish[n]])]
    /\ UNCHANGED <<chan, waiting_ack, file_client_path, direct_cmd_result, broadcast_que,
                   calls, nextUuid, uuidLimit, callers, accepts, responders, hostile, threadVars,
                   floodHist, storeVars, directVars, fileVars, stream_que, f_stop,
                   f_finish, closer>>

\* client.py:92-93: the transport stops accepting, the stop flag is set.
\* order is p2p.client, the list of neighbors, in the order they connected
Orders(S) == {o \in [1..Cardinality(S) -> S] : \A i, j \in 1..Cardinality(S) : o[i] = o[j] => i = j}
CloseClient(n, o) ==
    /\ n \in callers
    /\ closer[n].pc = "idle"
    /\ o \in Orders(client[n])
    /\ f_stop' = [f_stop EXCEPT ![n] = TRUE]
    /\ closer' = [closer EXCEPT ![n] = [pc |-> "loop", idx |-> 1, order |-> o]]
    /\ UNCHANGED <<netVars, tableVars, broadcast_que, calls, nextUuid, uuidLimit, callers,
                   accepts, responders, hostile, threadVars, floodHist, storeVars, directVars, fileVars,
                   stream_que, f_finish, proc, arrived>>

\* client.py:94-95: for client in self.p2p.client: remove_connection(client).
\* The loop walks the list by position while remove_connection takes
\* elements out of that same list
ClientList(n) == SelectSeq(closer[n].order, LAMBDA c : c \in client[n])
CloseRemove(n) ==
    /\ closer[n].pc = "loop"
    /\ IF closer[n].idx <= Len(ClientList(n))
       THEN /\ client' = RemoveConnection(client, n, ClientList(n)[closer[n].idx])
            /\ closer' = [closer EXCEPT ![n].idx = @ + 1]
       ELSE /\ closer' = [closer EXCEPT ![n].pc = "put"]
            /\ UNCHANGED client
    /\ UNCHANGED <<chan, tableVars, broadcast_que, calls, nextUuid, uuidLimit, callers,
                   accepts, responders, hostile, threadVars, floodHist, storeVars, directVars, fileVars,
                   stream_que, f_stop, f_finish, proc, arrived>>

\* client.py:96: the sentinel
ClosePut(n) ==
    /\ closer[n].pc = "put"
    /\ stream_que' = [stream_que EXCEPT ![n] = Append(@, Sentinel)]
    /\ closer' = [closer EXCEPT ![n].pc = "wait"]
    /\ UNCHANGED <<netVars, tableVars, broadcast_que, calls, nextUuid, uuidLimit, callers,
                   accepts, responders, hostile, threadVars, floodHist, storeVars, directVars, fileVars,
                   f_stop, f_finish, proc, arrived>>

\* client.py:97-98: while not self.f_finish: sleep
CloseReturn(n) ==
    /\ closer[n].pc = "wait"
    /\ f_finish[n]
    /\ closer' = [closer EXCEPT ![n].pc = "returned"]
    /\ UNCHANGED <<netVars, tableVars, broadcast_que, calls, nextUuid, uuidLimit, callers,
                   accepts, responders, hostile, threadVars, floodHist, storeVars, directVars, fileVars,
                   stream_que, f_stop, f_finish, proc, arrived>>

\* ------------------------------------------------------- specification
Sym(S) == {e \in Links : <<e[1], e[2]>> \in S \/ <<e[2], e[1]>> \in S}
Neighbors(S) == [n \in Nodes |-> {m \in Nodes : <<n, m>> \in Sym(S)}]
Triangle == Neighbors({<<"A", "B">>, <<"B", "C">>, <<"A", "C">>})
Line == Neighbors({<<"A", "B">>, <<"B", "C">>})

Pair == Neighbors({<<"A", "B">>})

\* the runs explored: who is connected to whom, who calls the API how often,
\* whose broadcast_check admits the payload
Scenarios ==
    {[top |-> Triangle, lim |-> MaxUuid, who |-> {"A"}, acc |-> Nodes],
     [top |-> Line, lim |-> MaxUuid, who |-> {"A"}, acc |-> Nodes],
     [top |-> Line, lim |-> MaxUuid, who |-> {"A"}, acc |-> Nodes \ {"B"}],
     [top |-> Pair, lim |-> MaxUuid + 1, who |-> {"A", "B"}, acc |-> Nodes]}

InitMessages ==
    /\ chan = [e \in Links |-> <<>>]
    /\ result = [n \in Nodes |-> <<>>]
    /\ waiting_ack = [n \in Nodes |-> <<>>]
    /\ file_client_path = [n \in Nodes |-> <<>>]
    /\ broadcast_que = [n \in Nodes |-> <<>>]
    /\ calls = <<>>
    /\ nextUuid = 1
    /\ admitted = [n \in Nodes |-> [u \in Uuids |-> 0]]
    /\ evicted = [n \in Nodes |-> [u \in Uuids |-> 0]]
    /\ trimmed = [n \in Nodes |-> [u \in Uuids |-> 0]]
    /\ handled = {}
    /\ direct_cmd_result = [n \in Nodes |-> <<>>]
    /\ direct_cmd_que = [n \in Nodes |-> <<>>]
    /\ direct = <<>>
    /\ tasks = <<>>
    /\ forged = [sent |-> 0, seen |-> {}, log |-> <<>>]
    /\ shared = [n \in Nodes |-> [h \in FileNames |-> NotShared]]

\* no Stabilize thread (start(f_stabilize=False)), no trim under way
NotStabilizing == [pc |-> "off"]
NoSlice == [on |-> FALSE, keep |-> <<>>]
NotSlicing == [n \in Nodes |-> NoSlice]
InitThreads ==
    /\ stab = NotStabilizing
    /\ slicing = NotSlicing
    /\ faulty = {}
InitProtocol ==
    /\ InitMessages
    /\ InitThreads
    /\ fileUuidLimit = MaxFileUuid

\* every node has been started and none is closing
InitState ==
    /\ InitProtocol
    /\ stream_que = [n \in Nodes |-> <<>>]
    /\ f_stop = [n \in Nodes |-> FALSE]
    /\ f_finish = [n \in Nodes |-> FALSE]
    /\ proc = [n \in Nodes |-> Running]
    /\ closer = [n \in Nodes |-> NotClosing]
    /\ arrived = [n \in Nodes |-> <<>>]

InitTables ==
    /\ InitState
    /\ now = 0

\* no application answers direct commands or uses the blob store API, and
\* every neighbor follows the protocol
NoEnvironment ==
    /\ responders = {}
    /\ hostile = {}
    /\ api = [n \in Nodes |-> IdleApi(<<>>)]

Init ==
    /\ \E s \in Scenarios :
          /\ client = s.top
          /\ uuidLimit = s.lim
          /\ callers = s.who
          /\ accepts = s.acc
    /\ InitTables
    /\ NoEnvironment
    /\ files = [n \in Nodes |-> EmptyStore]

Next ==
    \/ \E n \in Nodes, p \in Payloads : SendCommandBroadcast(n, p)
    \/ \E u \in Uuids : SendCommandSend(u)
    \/ \E u \in Uuids : SendCommandReturn(u)
    \/ \E u \in Uuids : SendCommandTimeout(u)
    \/ \E n \in Nodes, f \in Nodes : n # f /\ TypeRequestBroadcast(n, f)
    \/ \E n \in Nodes, f \in Nodes : n # f /\ TypeAck(n, f)

Spec == Init /\ [][Next]_vars

\* The dispatcher thread handles every queued item and a send_command call
\* that has registered its uuid goes on to send: weak fairness of the
\* handlers and of the send step.  Nothing forces an application to call
\* send_command, and a wait need not elapse.
InitLive ==
    /\ \E s \in Scenarios :
          /\ client = s.top
          /\ uuidLimit = MaxLiveUuid
          /\ callers = s.who
          /\ accepts = s.acc
    /\ InitTables
    /\ NoEnvironment
    /\ files = [n \in Nodes |-> EmptyStore]

Fairness ==
    /\ \A u \in Uuids : WF_vars(SendCommandSend(u))
    /\ \A n \in Nodes, f \in Nodes : WF_vars(n # f /\ TypeRequestBroadcast(n, f))
    /\ \A n \in Nodes, f \in Nodes : WF_vars(n # f /\ TypeAck(n, f))

FairSpec == InitLive /\ [][Next]_vars /\ Fairness

\* ---- the administrative delete on the line: every node starts with blob
\* b1 in its store (the store directory outlives a run, client.py:57-62),
\* A signs with either key and names either pem, the clock runs
StoreWithB1 == [h \in FileNames |-> IF h = "h1" THEN "b1" ELSE NoFile]

InitDelete ==
    /\ client = Line
    /\ uuidLimit = MaxLiveUuid
    /\ callers = {"A"}
    /\ accepts = Nodes
    /\ InitTables
    /\ NoEnvironment
    /\ files = [n \in Nodes |-> StoreWithB1]

NextDelete ==
    \/ \E n \in Nodes, sk \in Keys, pem \in Pems : RemoveFileByMaster(n, sk, "h1", pem)
    \/ \E u \in Uuids : SendCommandSend(u)
    \/ \E u \in Uuids : SendCommandReturn(u)
    \/ \E u \in Uuids : SendCommandTimeout(u)
    \/ \E n \in Nodes, f \in Nodes : n # f /\ TypeRequestFileDelete(n, f)
    \/ \E n \in Nodes, f \in Nodes : n # f /\ TypeAck(n, f)
    \/ Tick

SpecDelete == InitDelete /\ [][NextDelete]_vars

\* ---- the originator's marker: BROADCAST and FILE_DELETE floods with a
\* valid signature, one on the triangle, three between the pair A-B
ScenariosMarker ==
    {[top |-> Triangle, lim |-> MaxLiveUuid, who |-> {"A"}],
     [top |-> Pair, lim |-> MaxUuid + 1, who |-> {"A", "B"}]}

InitMarker ==
    /\ \E s \in ScenariosMarker :
          /\ client = s.top
          /\ uuidLimit = s.lim
          /\ callers = s.who
    /\ accepts = Nodes
    /\ InitTables
    /\ NoEnvironment
    /\ files = [n \in Nodes |-> StoreWithB1]

NextMarker ==
    \/ \E n \in Nodes, p \in Payloads : SendCommandBroadcast(n, p)
    \/ \E n \in Nodes : RemoveFileByMaster(n, "master", "h1", "public.master.pem")
    \/ \E u \in Uuids : SendCommandSend(u)
    \/ \E u \in Uuids : SendCommandReturn(u)
    \/ \E u \in Uuids : SendCommandTimeout(u)
    \/ \E n \in Nodes, f \in Nodes : n # f /\ TypeRequestBroadcast(n, f)
    \/ \E n \in Nodes, f \in Nodes : n # f /\ TypeRequestFileDelete(n, f)
    \/ \E n \in Nodes, f \in Nodes : n # f /\ TypeAck(n, f)

SpecMarker == InitMarker /\ [][NextMarker]_vars

\* ---- DIRECT_CMD between the pair A-B: A calls, the application of B
\* answers in some runs and not in others
InitDirect ==
    /\ client = Pair
    /\ uuidLimit = MaxUuid
    /\ callers = {"A"}
    /\ accepts = Nodes
    /\ responders \in {{}, {"B"}}
    /\ hostile = {}
    /\ api = [n \in Nodes |-> IdleApi(<<>>)]
    /\ InitTables
    /\ files = [n \in Nodes |-> EmptyStore]

NextDirect ==
    \/ \E n \in Nodes, c \in Nodes, p \in Payloads : n # c /\ SendCommandDirect(n, c, p)
    \/ \E u \in Uuids : SendCommandSend(u)
    \/ \E u \in Uuids : SendCommandReturn(u)
    \/ \E u \in Uuids : SendCommandTimeout(u)
    \/ \E n \in Nodes, f \in Nodes : n # f /\ TypeRequestDirectCmd(n, f)
    \/ \E n \in Nodes, f \in Nodes : n # f /\ TypeResponse(n, f)
    \/ \E n \in Nodes, i \in 1..MaxUuid : DepositReply(n, i)
    \/ \E t \in 1..MaxUuid : DirectCmdPoll(t)

SpecDirect == InitDirect /\ [][NextDirect]_vars

\* ---- the blob store and the file fetch: the application of A shares,
\* gets and removes blobs; C holds b1 on the line; nobody holds it on the
\* triangle, where C also sends envelopes of its own; B deletes b1 as
\* master on the pair, with the first send_command of the run
Nobody == [n \in Nodes |-> {}]
HeldBy(S) == [n \in Nodes |-> IF n \in S THEN StoreWithB1 ELSE EmptyStore]
ApiNames == {"share_file", "get_file", "remove_file"}
AnyCalls == UNION {[1..k -> ApiNames] : k \in 1..MaxApi}
ScenariosFile ==
    {[top |-> Triangle, held |-> {}, todo |-> {<<"get_file">>}, who |-> {}, bad |-> {"C"}],
     [top |-> Line, held |-> {"C"}, todo |-> {<<"get_file">>}, who |-> {}, bad |-> {}],
     [top |-> Pair, held |-> {}, todo |-> {<<"share_file", "get_file">>}, who |-> {"B"}, bad |-> {}],
     [top |-> Nobody, held |-> {}, todo |-> AnyCalls, who |-> {}, bad |-> {}]}

InitFile ==
    /\ \E s \in ScenariosFile :
          /\ client = s.top
          /\ files = HeldBy(s.held)
          /\ \E todo \in s.todo :
                api = [n \in Nodes |-> IdleApi(IF n = "A" THEN todo ELSE <<>>)]
          /\ callers = s.who
          /\ hostile = s.bad
    /\ uuidLimit = MaxLiveUuid
    /\ accepts = Nodes
    /\ responders = {}
    /\ InitTables

SharedBlobs == {"b1", TooBig}
AskedNames == {"h1", "H1"}

NextFile ==
    \/ \E n \in Nodes, b \in SharedBlobs : ShareFile(n, b)
    \/ \E n \in Nodes : ShareFileWrite(n)
    \/ \E n \in Nodes : RemoveFile(n, "h1")
    \/ \E n \in Nodes, h \in AskedNames : GetFile(n, h)
    \/ \E n \in Nodes : GetFileRead(n)
    \/ \E n \in Nodes, c \in Nodes : GetFileCheck(n, c)
    \/ \E n \in Nodes : GetFileChecked(n)
    \/ \E n \in Nodes, c \in Nodes : GetFileChoose(n, c)
    \/ \E n \in Nodes : GetFileGet(n)
    \/ \E n \in Nodes : GetFileGot(n)
    \/ \E n \in Nodes : GetFileWrite(n)
    \/ \E n \in Nodes : RemoveFileByMaster(n, "master", "h1", "public.master.pem")
    \/ \E u \in Uuids : SendCommandSend(u)
    \/ \E u \in Uuids : SendCommandReturn(u)
    \/ \E u \in Uuids : SendCommandTimeout(u)
    \/ \E n \in Nodes, f \in Nodes : n # f /\ TypeRequestFileCheck(n, f)
    \/ \E n \in Nodes, f \in Nodes : n # f /\ TypeRequestFileGet(n, f)
    \/ \E n \in Nodes, f \in Nodes : n # f /\ TypeRequestFileDelete(n, f)
    \/ \E n \in Nodes, f \in Nodes : n # f /\ TypeRequestBroadcast(n, f)
    \/ \E n \in Nodes, f \in Nodes : n # f /\ TypeResponse(n, f)
    \/ \E n \in Nodes, f \in Nodes : n # f /\ TypeAck(n, f)
    \/ \E t \in 1..MaxFileUuid : Sending(t)
    \/ \E t \in 1..MaxFileUuid : AskingStart(t)
    \/ \E t \in 1..MaxFileUuid, c \in Nodes : AskingCheck(t, c)
    \/ \E t \in 1..MaxFileUuid : AskingChecked(t)
    \/ \E t \in 1..MaxFileUuid : AskingOver(t)
    \/ \E t \in 1..MaxFileUuid : AskingGet(t)
    \/ \E t \in 1..MaxFileUuid : AskingGot(t)
    \/ \E x \in Nodes, n \in Nodes, u \in Uuids : \E m \in ForgedEnvelopes(u) : Forge(x, n, m)

SpecFile == InitFile /\ [][NextFile]_vars

\* ------------------------------------------------------------ properties
\* publications of uuid u on the broadcast fan-out queue of node n
PubCount(n, u) == Cardinality({i \in 1..Len(broadcast_que[n]) : broadcast_que[n][i][2].uuid = u})

\* C1 as stated: no node processes a broadcast uuid twice (one admission by
\* the request handler, one publication on the fan-out queue), in every
\* execution, pruning of the tables included.
C1_NoUuidTwice ==
    \A n \in Nodes, u \in Uuids : admitted[n][u] <= 1 /\ PubCount(n, u) <= 1

\* C1 amended: a node processes a broadcast uuid again only after the
\* garbage correction has pruned that uuid from its waiter table or its
\* marker list; each admission and publication beyond the first is
\* preceded by such a pruning.
C1_NoUuidTwiceUnlessPruned ==
    \A n \in Nodes, u \in Uuids :
        /\ admitted[n][u] <= 1 + evicted[n][u] + trimmed[n][u]
        /\ PubCount(n, u) <= 1 + evicted[n][u] + trimmed[n][u]

\* a node has dropped the second copy of a uuid it admitted before: the
\* copy is gone from the link, and the node admitted the uuid exactly once
C1_Witness ==
    \E n \in Nodes, u \in Uuids :
        /\ admitted[n][u] = 1
        /\ evicted[n][u] = 0 /\ trimmed[n][u] = 0
        /\ Cardinality({m \in Nodes : admitted[m][u] = 1}) = 2
        /\ \A e \in Links : \A i \in 1..Len(chan[e]) : chan[e][i].uuid # u

\* nodes a flood started by node o reaches: over any chain of connected
\* neighbors (Connected), over chains whose inner nodes all admit the
\* payload (AdmittingChain)
RECURSIVE Reach(_, _, _)
Reach(S, via, k) ==
    IF k = 0 THEN S
    ELSE Reach(S \cup {m \in Nodes : \E n \in S \cap via : m \in client[n]}, via, k - 1)
Connected(o) == Reach({o}, Nodes, Cardinality(Nodes)) \ {o}
AdmittingChain(o) == Reach({o}, accepts \cup {o}, Cardinality(Nodes)) \ {o}

Started(u) == u \in DOMAIN calls /\ calls[u].cmd = BROADCAST /\ calls[u].pc # "err"

\* C3 as stated: every node connected to the originator of a BROADCAST,
\* directly or through a chain of connected neighbors, whose
\* broadcast_check admits the payload eventually publishes it.
C3_EveryConnectedNodePublishes ==
    \A u \in Uuids, n \in Nodes :
        (Started(u) /\ n \in Connected(calls[u].node) /\ n \in accepts)
            ~> (PubCount(n, u) >= 1)

\* C3 amended: every node whose broadcast_check admits the payload and
\* which is connected to the originator directly, or through a chain of
\* neighbors each of which admits the payload too, eventually publishes it
\* (a node that rejects the payload does not re-emit it).
C3_AdmittingChainPublishes ==
    \A u \in Uuids, n \in Nodes :
        (Started(u) /\ n \in AdmittingChain(calls[u].node) /\ n \in accepts)
            ~> (PubCount(n, u) >= 1)

\* the triangle: B and C have both published the payload of A's broadcast,
\* each once, and every copy of the request is gone from the links
C3_Witness ==
    /\ client = Triangle
    /\ \E u \in Uuids :
          /\ Started(u)
          /\ calls[u].node = "A"
          /\ PubCount("B", u) = 1 /\ PubCount("C", u) = 1
          /\ admitted["A"][u] = 0
          /\ \A e \in Links : chan[e] = <<>>

\* a REQUEST carrying uuid u is on some link
RequestInFlight(u) ==
    \E e \in Links : \E i \in 1..Len(chan[e]) :
        chan[e][i].uuid = u /\ chan[e][i].type = T_REQUEST
Flooded(u) == u \in DOMAIN calls /\ calls[u].cmd \in {BROADCAST, FILE_DELETE}
HandledBy(n, u) == \E r \in handled : r.node = n /\ r.uuid = u

\* C4 as stated: while a request of a BROADCAST / FILE_DELETE send_command
\* is in flight its uuid is in the originator's marker list, and the
\* originator never processes a request carrying that uuid.
C4_MarkerWhileInFlight ==
    \A u \in Uuids : Flooded(u) =>
        /\ RequestInFlight(u) => u \in MarkersOf(waiting_ack[calls[u].node])
        /\ admitted[calls[u].node][u] = 0
        /\ ~HandledBy(calls[u].node, u)

\* C4 amended: the uuid is appended to the marker list before the first
\* REQUEST is sent and stays there until the request handler's trim drops
\* it; until then a request with that uuid that returns to the originator
\* is dropped with no insert, publication, ACK or re-emission.
C4_MarkerUntilTrimmed ==
    \A u \in Uuids : Flooded(u) =>
        LET o == calls[u].node
        IN /\ RequestInFlight(u) => (u \in MarkersOf(waiting_ack[o]) \/ trimmed[o][u] > 0)
           /\ (admitted[o][u] > 0 \/ HandledBy(o, u)) => trimmed[o][u] > 0

\* the triangle: B admitted A's broadcast from C and re-emitted it to A,
\* and A has consumed that echo without admitting it
C4_Witness ==
    \E u \in Uuids :
        /\ Flooded(u) /\ calls[u].node = "A"
        /\ Include(result["B"], u) /\ Get(result["B"], u)[1] = "C"
        /\ \A e \in Links : chan[e] = <<>>
        /\ u \in MarkersOf(waiting_ack["A"])
        /\ admitted["A"][u] = 0 /\ ~HandledBy("A", u)

\* C9: a node removes a blob in reaction to a FILE_DELETE request, and
\* re-emits the request, only when the signed time is at most 30 s from its
\* clock and the signature verifies against the named key: a blob missing
\* on a node that did not call remove_file_by_master, and a FILE_DELETE
\* request sent by such a node, go back to a fresh and verified request.
Accepted(r) == r.sigok /\ r.age <= SignatureMaxAge
C9_DeleteOnlyFreshAndSigned ==
    /\ \A r \in handled : (r.removed \/ r.reemit # {}) => Accepted(r)
    /\ \A n \in Nodes \ callers :
          /\ ~Exists(files[n], "h1") => \E r \in handled : r.node = n /\ r.removed /\ Accepted(r)
          /\ \A m \in Nodes \ {n} : \A i \in 1..Len(chan[<<n, m>>]) :
                (chan[<<n, m>>][i].type = T_REQUEST /\ chan[<<n, m>>][i].cmd = FILE_DELETE)
                    => \E r \in handled : r.node = n /\ m \in r.reemit /\ Accepted(r)

\* B has handled a fresh request signed with the wrong key, and one that
\* reached it stale: B and C still hold the blob and C was sent nothing
C9_Witness ==
    /\ \E r \in handled : r.node = "B" /\ ~r.sigok /\ r.age <= SignatureMaxAge
    /\ \A e \in Links : chan[e] = <<>>
    /\ Exists(files["B"], "h1") /\ Exists(files["C"], "h1")
    /\ result["C"] = <<>>

\* C10 as stated: a FILE_DELETE request whose signature fails verification
\* is dropped silently: nothing is re-emitted, no ACK or RESPONSE goes to
\* the incoming neighbor, the blob is kept.
C10_InvalidSignatureSilent ==
    \A r \in handled : ~r.sigok => (r.reemit = {} /\ ~r.acked /\ ~r.removed)

\* C5 as stated: the waiter-table entry of a FILE_GET call, and what
\* send_command returns for it, come from the neighbor the request was
\* sent to, the ship_to of the relay-path entry.
C5_FileGetFromAskedNeighbor ==
    \A u \in DOMAIN calls : calls[u].cmd = FILE_GET =>
        /\ Include(result[calls[u].node], u)
                => Get(result[calls[u].node], u)[1] = calls[u].client
        /\ calls[u].pc = "ret" => calls[u].ret[1] = calls[u].client

\* C2: an entry of the waiter table keeps its (origin, payload) as long as
\* it is stored; a RESPONSE, an ACK or a BROADCAST / FILE_DELETE request
\* that arrives with the uuid of a stored entry leaves the table as it is;
\* a uuid has one entry at most; send_command returns the stored entry.
Arrives(n, f) ==
    /\ HasMsg(n, f)
    /\ chan'[<<f, n>>] = Tail(chan[<<f, n>>])
    /\ \/ Msg(n, f).type \in {T_RESPONSE, T_ACK}
       \/ Msg(n, f).cmd \in {BROADCAST, FILE_DELETE}
C2_Step ==
    /\ \A n \in Nodes : \A u \in Uuids :
          (Include(result[n], u) /\ Include(result'[n], u))
              => Get(result'[n], u) = Get(result[n], u)
    /\ \A n \in Nodes : \A f \in Nodes \ {n} :
          (Arrives(n, f) /\ Include(result[n], Msg(n, f).uuid)) => result'[n] = result[n]
    /\ \A n \in Nodes : \A i, j \in 1..Len(result'[n]) :
          result'[n][i].uuid = result'[n][j].uuid => i = j
    /\ \A u \in DOMAIN calls :
          (calls[u].pc = "wait" /\ calls'[u].pc = "ret" /\ calls[u].cmd # BROADCAST)
              => calls'[u].ret = Get(result[calls[u].node], u)
Returned(n, op) == api[n].op = op /\ api[n].pc = "idle"
C6_ReturnedBlobHasRequestedHash ==
    /\ \A n \in Nodes :
          (Returned(n, "get_file") /\ api[n].ret.k = "raw")
              => sha256(api[n].ret.v) = Lower(api[n].h)
    /\ \A n \in Nodes : \A h \in FileNames :
          Exists(files[n], h) =>
              \/ sha256(files[n][h]) = h
              \/ files[n][h] = Partial /\ api[n].pc = "write" /\ Lower(api[n].h) = h

\* on the line A has fetched b1 through B from C, stored it and returned it
C6_Witness ==
    /\ client["A"] = {"B"}
    /\ Returned("A", "get_file")
    /\ api["A"].h = "H1"
    /\ api["A"].ret = RawData("b1")
    /\ api["A"].sent > 0
    /\ files["A"]["h1"] = "b1"

\* C7 as stated: share_file(b) returned h on the node and no remove_file or
\* accepted FILE_DELETE has removed h since it returned: get_file(h) returns
\* b and makes no send_command call.
C7_RoundTrip ==
    \A n \in Nodes :
        (Returned(n, "get_file") /\ shared[n][Lower(api[n].h)].blob # NoFile)
            => /\ api[n].ret = RawData(shared[n][Lower(api[n].h)].blob)
               /\ api[n].sent = 0

\* C7 amended: the same, when no removal has hit h since share_file opened
\* the file for writing.
C7_RoundTripUnlessRaced ==
    \A n \in Nodes :
        (/\ Returned(n, "get_file")
         /\ shared[n][Lower(api[n].h)].blob # NoFile
         /\ ~shared[n][Lower(api[n].h)].raced)
            => /\ api[n].ret = RawData(shared[n][Lower(api[n].h)].blob)
               /\ api[n].sent = 0

\* a node with no neighbor has shared b1 and got it back
C7_Witness ==
    /\ client["A"] = {}
    /\ Returned("A", "get_file")
    /\ shared["A"]["h1"] = [blob |-> "b1", raced |-> FALSE]
    /\ api["A"].ret = RawData("b1")
    /\ api["A"].sent = 0

\* C8 as stated: the DirectCmd thread of a request looks for the reply at
\* most 200 times; after the 200th look it has ended and has sent its one
\* RESPONSE, null when no reply was deposited.
C8_AnsweredWithinPolls ==
    \A t \in DOMAIN direct :
        /\ direct[t].polls <= DirectPolls
        /\ direct[t].polls = DirectPolls => direct[t].pc = "done"

\* ---- the administrative delete as a flood: every node holds b1, A deletes
\* it as master with the installed key; once on the line while the clock
\* runs, and on the triangle, within one clock step, as often as it takes
\* to fill a waiter table past its limit
ScenariosDeleteLive ==
    {[top |-> Line, lim |-> MaxLiveUuid, clock |-> 0],
     [top |-> Triangle, lim |-> StackLimit + 1, clock |-> MaxClock]}

InitDeleteLive ==
    /\ \E s \in ScenariosDeleteLive :
          /\ client = s.top
          /\ uuidLimit = s.lim
          /\ now = s.clock
    /\ callers = {"A"}
    /\ accepts = Nodes
    /\ InitState
    /\ NoEnvironment
    /\ files = [n \in Nodes |-> StoreWithB1]

NextDeleteLive ==
    \/ \E n \in Nodes : RemoveFileByMaster(n, "master", "H1", "public.master.pem")
    \/ \E u \in Uuids : SendCommandSend(u)
    \/ \E u \in Uuids : SendCommandReturn(u)
    \/ \E u \in Uuids : SendCommandTimeout(u)
    \/ \E n \in Nodes, f \in Nodes : n # f /\ TypeRequestFileDelete(n, f)
    \/ \E n \in Nodes, f \in Nodes : n # f /\ TypeAck(n, f)
    \/ Tick

\* the dispatcher handles every queued item and a call that has registered
\* its uuid goes on to send; nothing bounds the time this takes
FairnessDelete ==
    /\ \A u \in Uuids : WF_vars(SendCommandSend(u))
    /\ \A n \in Nodes, f \in Nodes : WF_vars(n # f /\ TypeRequestFileDelete(n, f))
    /\ \A n \in Nodes, f \in Nodes : WF_vars(n # f /\ TypeAck(n, f))

FairSpecDelete == InitDeleteLive /\ [][NextDeleteLive]_vars /\ FairnessDelete

\* a FILE_DELETE call that went out; the signed time is older than the
\* window at every node
Issued(u) == u \in DOMAIN calls /\ calls[u].cmd = FILE_DELETE /\ calls[u].clients # {}
Stale(u) == now - calls[u].data.v.raw[2] > SignatureMaxAge
HandlingsOf(n, u) == Cardinality({r \in handled : r.node = n /\ r.uuid = u})
DeleteReaches(n, u) ==
    (Issued(u) /\ n \in Connected(calls[u].node) /\ Exists(files[n], calls[u].data.v.raw[1]))
        ~> (u \in DOMAIN calls /\ (~Exists(files[n], calls[u].data.v.raw[1]) \/ Stale(u)))

Star == Neighbors({<<"A", "B">>, <<"A", "C">>})
ScenariosClose == {Nobody, Pair, Star}

InitClose ==
    /\ client \in ScenariosClose
    /\ uuidLimit = MaxLiveUuid
    /\ callers = {"A"}
    /\ accepts = Nodes
    /\ InitProtocol
    /\ now = 0
    /\ stream_que = [n \in Nodes |-> <<>>]
    /\ f_stop = [n \in Nodes |-> FALSE]
    /\ f_finish = [n \in Nodes |-> FALSE]
    /\ proc = [n \in Nodes |-> IF n = "A" THEN Running ELSE NotStarted]
    /\ closer = [n \in Nodes |-> NotClosing]
    /\ arrived = [n \in Nodes |-> <<>>]
    /\ NoEnvironment
    /\ files = [n \in Nodes |-> EmptyStore]

NextClose ==
    \/ \E n \in Nodes, f \in Nodes, it \in Items : n # f /\ Receive(n, f, it)
    \/ \E n \in Nodes : ProcessingTop(n)
    \/ \E n \in Nodes : ProcessingGet(n)
    \/ \E n \in Nodes : ProcessingHandle(n)
    \/ \E n \in Nodes : \E o \in Orders(client[n]) : CloseClient(n, o)
    \/ \E n \in Nodes : CloseRemove(n)
    \/ \E n \in Nodes : ClosePut(n)
    \/ \E n \in Nodes : CloseReturn(n)

SpecClose == InitClose /\ [][NextClose]_vars

\* both threads keep running: weak fairness of every step of the
\* dispatcher loop and of close_client; nothing forces a neighbor to send
\* or the application to call close
FairnessClose ==
    /\ \A n \in Nodes : WF_vars(ProcessingTop(n))
    /\ \A n \in Nodes : WF_vars(ProcessingGet(n))
    /\ \A n \in Nodes : WF_vars(ProcessingHandle(n))
    /\ \A n \in Nodes : WF_vars(CloseRemove(n))
    /\ \A n \in Nodes : WF_vars(ClosePut(n))
    /\ \A n \in Nodes : WF_vars(CloseReturn(n))

FairSpecClose == InitClose /\ [][NextClose]_vars /\ FairnessClose

\* C12 as stated: when close() has returned, the neighbor set is empty,
\* however many neighbors were connected when it was called.
C12_ClosedWithoutNeighbors ==
    \A n \in Nodes : closer[n].pc = "returned" => client[n] = {}

\* C13 as stated: a call of close() eventually returns, whatever the
\* dispatcher is doing; it returns only after the dispatcher has set the
\* finished flag; once the flag is set the dispatcher handles no item.
C13_CloseReturns ==
    /\ \A n \in Nodes : (closer[n].pc # "idle") ~> (closer[n].pc = "returned")
    /\ [](\A n \in Nodes : closer[n].pc = "returned" => f_finish[n])
    /\ [](\A n \in Nodes : \A i \in 1..Len(arrived[n]) : ~arrived[n][i].finished)

\* C14 as stated: the dispatcher survives every bad item: an undecodable
\* one removes its neighbor, one of unknown type changes nothing, one whose
\* handler raises is logged and its neighbor stays connected; the loop then
\* goes on to the next item.
C14_DispatcherSurvives ==
    \A n \in Nodes :
        /\ proc[n].pc # "dead"
        /\ \A i \in 1..Len(arrived[n]) :
              LET a == arrived[n][i]
              IN /\ a.kind = "undecodable" => a.outcome = "removed" /\ ~a.connected
                 /\ a.kind = "unknown" => a.outcome = "discarded"
                 /\ a.kind = "raising" => a.outcome = "logged"

\* ---- send_command called by the application of A in every way: each
\* command, with no neighbor named, a connected one or one that is not
\* connected, with the default wait or none; A has no, one or two neighbors,
\* which hold b1
Commands == {PING_PONG, BROADCAST, FILE_CHECK, FILE_GET, FILE_DELETE}
Waits == {0, DefaultWait}
MaybeNode == Nodes \cup {None}

InitCommand ==
    /\ client \in {Nobody, Pair, Star}
    /\ uuidLimit = MaxLiveUuid
    /\ callers = {"A"}
    /\ accepts = Nodes
    /\ InitTables
    /\ NoEnvironment
    /\ files = HeldBy({"B", "C"})

NextCommand ==
    \/ \E n \in Nodes, cmd \in Commands, given \in MaybeNode, arg \in Waits,
          pick \in MaybeNode : given # n /\ SendCommand(n, cmd, given, arg, pick)
    \/ \E u \in Uuids : SendCommandSend(u)
    \/ \E u \in Uuids : SendCommandReturn(u)
    \/ \E u \in Uuids : SendCommandTimeout(u)
    \/ \E n \in Nodes, f \in Nodes : n # f /\ TypeRequestPingPong(n, f)
    \/ \E n \in Nodes, f \in Nodes : n # f /\ TypeRequestFileCheck(n, f)
    \/ \E n \in Nodes, f \in Nodes : n # f /\ TypeRequestFileGet(n, f)
    \/ \E n \in Nodes, f \in Nodes : n # f /\ TypeRequestBroadcast(n, f)
    \/ \E n \in Nodes, f \in Nodes : n # f /\ TypeRequestFileDelete(n, f)
    \/ \E n \in Nodes, f \in Nodes : n # f /\ TypeResponse(n, f)
    \/ \E n \in Nodes, f \in Nodes : n # f /\ TypeAck(n, f)
    \/ \E t \in 1..MaxFileUuid : Sending(t)

SpecCommand == InitCommand /\ [][NextCommand]_vars

\* C15 as stated: a send_command call made with an empty neighbor set, or
\* naming a neighbor that is not in the neighbor set, fails with
\* ConnectionError and sends nothing, whatever the command.
NoSuchNeighbor(c) == c.had = {} \/ (c.given # None /\ c.given \notin c.had)
C15_NoConnection ==
    \A u \in DOMAIN calls :
        NoSuchNeighbor(calls[u]) =>
            /\ calls[u].pc = "err"
            /\ calls[u].ret = <<None, ErrorData("ConnectionError")>>
            /\ calls[u].sent = {}

\* C16 as stated, for the calls that have a neighbor to send to (the others
\* fail at client.py:406-426): a send_command call with wait < 1 fails, and
\* when it has failed no REQUEST of it was sent, its uuid is not in the
\* marker list and not in the relay-path table; it never waits or returns
\* a value.
C16_NoWaitNoEffect ==
    \A u \in DOMAIN calls :
        (calls[u].arg < 1 /\ calls[u].clients # {}) =>
            /\ calls[u].pc \in {"send", "err"}
            /\ calls[u].pc = "err" =>
                  /\ calls[u].sent = {}
                  /\ u \notin MarkersOf(waiting_ack[calls[u].node])
                  /\ ~Include(file_client_path[calls[u].node], u)

\* the step in which the wait of call u elapses
TimesOut(u) == u \in DOMAIN calls /\ calls[u].pc = "wait" /\ calls'[u].pc = "err"

\* C17 as stated: when the wait elapses the call fails with
\* Timeout(cmd, data, uuid, name), the neighbors the request was sent to
\* leave the neighbor set and no other neighbor does.
C17_StepSentTo ==
    \A u \in Uuids : TimesOut(u) =>
        /\ calls'[u].ret = <<None, ErrorData("TimeoutError")>>
        /\ calls'[u].args = TimeoutArgs(calls[u], u)
        /\ client' = [client EXCEPT ![calls[u].node] = @ \ calls[u].sent]
C17_TimeoutRemovesSentTo == [][C17_StepSentTo]_vars

\* C17 amended: when the wait elapses the call fails with
\* Timeout(cmd, data, uuid, name) and the neighbor set loses the neighbor
\* named in the call, or picked at random when none was named, and no other;
\* a request that is not a BROADCAST or FILE_DELETE was sent to that
\* neighbor only; a BROADCAST or FILE_DELETE called without a neighbor
\* removes nobody.
C17_StepNamed ==
    \A u \in Uuids : TimesOut(u) =>
        /\ calls'[u].ret = <<None, ErrorData("TimeoutError")>>
        /\ calls'[u].args = TimeoutArgs(calls[u], u)
        /\ client' = [client EXCEPT ![calls[u].node] = @ \ {calls[u].client}]
        /\ calls[u].cmd \notin {BROADCAST, FILE_DELETE} => calls[u].sent \subseteq {calls[u].client}
        /\ calls[u].cmd \in {BROADCAST, FILE_DELETE} => calls[u].client = calls[u].given
C17_TimeoutRemovesNamed == [][C17_StepNamed]_vars

\* the star: a PING_PONG of A called without a neighbor went to B, the wait
\* elapsed, B is gone and C is still connected
C17_Witness ==
    \E u \in DOMAIN calls :
        /\ calls[u].cmd = PING_PONG /\ calls[u].given = None
        /\ calls[u].sent = {"B"}
        /\ calls[u].ret = <<None, ErrorData("TimeoutError")>>
        /\ calls[u].args[4] = NameData("B")
        /\ client["A"] = {"C"}

\* C18 as stated: with the blob absent when get_file looks for it (a
\* FileNotFoundError comes from the read of a local blob only), every
\* failure of get_file is a FileReceiveError, also when a neighbor does not
\* answer in time, and nothing is written to the blob store.
C18_EveryFailureIsFileReceiveError ==
    \A n \in Nodes :
        (/\ Returned(n, "get_file")
         /\ api[n].ret.k = "error"
         /\ api[n].ret # ErrorData("FileNotFoundError"))
            => /\ api[n].ret = ErrorData("FileReceiveError")
               /\ ~Exists(files[n], Lower(api[n].h))

\* ---- the relayed fetch on the line A - B - C: C holds b1, the application
\* of A asks for it, B is the only neighbor of A
InitRelay ==
    /\ client = Line
    /\ files = HeldBy({"C"})
    /\ api = [n \in Nodes |-> IdleApi(IF n = "A" THEN <<"get_file">> ELSE <<>>)]
    /\ callers = {}
    /\ hostile = {}
    /\ uuidLimit = MaxLiveUuid
    /\ accepts = Nodes
    /\ responders = {}
    /\ InitTables

NextRelay ==
    \/ \E n \in Nodes, h \in AskedNames : GetFile(n, h)
    \/ \E n \in Nodes, c \in Nodes : GetFileCheck(n, c)
    \/ \E n \in Nodes : GetFileChecked(n)
    \/ \E n \in Nodes, c \in Nodes : GetFileChoose(n, c)
    \/ \E n \in Nodes : GetFileGet(n)
    \/ \E n \in Nodes : GetFileGot(n)
    \/ \E n \in Nodes : GetFileWrite(n)
    \/ \E u \in Uuids : SendCommandSend(u)
    \/ \E u \in Uuids : SendCommandReturn(u)
    \/ \E u \in Uuids : SendCommandTimeout(u)
    \/ \E n \in Nodes, f \in Nodes : n # f /\ TypeRequestFileCheck(n, f)
    \/ \E n \in Nodes, f \in Nodes : n # f /\ TypeRequestFileGet(n, f)
    \/ \E n \in Nodes, f \in Nodes : n # f /\ TypeResponse(n, f)
    \/ \E t \in 1..MaxFileUuid : Sending(t)
    \/ \E t \in 1..MaxFileUuid : AskingStart(t)
    \/ \E t \in 1..MaxFileUuid, c \in Nodes : AskingCheck(t, c)
    \/ \E t \in 1..MaxFileUuid : AskingChecked(t)
    \/ \E t \in 1..MaxFileUuid : AskingOver(t)
    \/ \E t \in 1..MaxFileUuid : AskingGet(t)
    \/ \E t \in 1..MaxFileUuid : AskingGot(t)

\* every thread that is running keeps running and the dispatcher handles
\* every queued item; nothing forces the application to call get_file, and
\* a wait need not elapse
FairnessRelay ==
    /\ \A n \in Nodes, c \in Nodes : WF_vars(GetFileCheck(n, c))
    /\ \A n \in Nodes : WF_vars(GetFileChecked(n))
    /\ \A n \in Nodes, c \in Nodes : WF_vars(GetFileChoose(n, c))
    /\ \A n \in Nodes : WF_vars(GetFileGet(n))
    /\ \A n \in Nodes : WF_vars(GetFileGot(n))
    /\ \A n \in Nodes : WF_vars(GetFileWrite(n))
    /\ \A u \in Uuids : WF_vars(SendCommandSend(u))
    /\ \A u \in Uuids : WF_vars(SendCommandReturn(u))
    /\ \A n \in Nodes, f \in Nodes : WF_vars(n # f /\ TypeRequestFileCheck(n, f))
    /\ \A n \in Nodes, f \in Nodes : WF_vars(n # f /\ TypeRequestFileGet(n, f))
    /\ \A n \in Nodes, f \in Nodes : WF_vars(n # f /\ TypeResponse(n, f))
    /\ \A t \in 1..MaxFileUuid : WF_vars(Sending(t))
    /\ \A t \in 1..MaxFileUuid : WF_vars(AskingStart(t))
    /\ \A t \in 1..MaxFileUuid, c \in Nodes : WF_vars(AskingCheck(t, c))
    /\ \A t \in 1..MaxFileUuid : WF_vars(AskingChecked(t))
    /\ \A t \in 1..MaxFileUuid : WF_vars(AskingOver(t))
    /\ \A t \in 1..MaxFileUuid : WF_vars(AskingGet(t))
    /\ \A t \in 1..MaxFileUuid : WF_vars(AskingGot(t))

FairSpecRelay == InitRelay /\ [][NextRelay]_vars /\ FairnessRelay

\* a wait has elapsed somewhere: a message was lost or came too late
SomeTimeout == \E u \in DOMAIN calls : calls[u].ret = <<None, ErrorData("TimeoutError")>>
\* the Asking threads of the relay that have sent their FILE_GET
Relaying(t) ==
    /\ tasks[t].kind = "asking"
    /\ tasks[t].pc \in {"getting", "done"}
    /\ tasks[t].cur \in DOMAIN calls
    /\ calls[tasks[t].cur].cmd = FILE_GET
\* the FILE_GET responses with uuid u that node n has sent to f and f has
\* not handled, and the one f has stored
ResponsesOf(n, f, u) ==
    {chan[<<n, f>>][i].data : i \in {j \in 1..Len(chan[<<n, f>>]) :
        /\ chan[<<n, f>>][j].uuid = u
        /\ chan[<<n, f>>][j].type = T_RESPONSE
        /\ chan[<<n, f>>][j].cmd = FILE_GET}}
    \cup (IF Include(result[f], u) THEN {Get(result[f], u)[2]} ELSE {})

\* C19 (the line is A - B - C here: A asks, B relays, C holds the blob):
\* unless a wait elapses, get_file(h) of A eventually returns the bytes C
\* holds; while it relays, B has a relay-path entry keyed by the uuid of A's
\* FILE_GET whose pair is (A, C); and what B sends A under that uuid is the
\* payload B's own FILE_GET returned.
C19_RelayedFetchSucceeds ==
    /\ (api["A"].op = "get_file")
          ~> (SomeTimeout \/ (Returned("A", "get_file") /\ api["A"].ret = RawData("b1")))
    /\ [](\A t \in DOMAIN tasks : (Relaying(t) /\ ~SomeTimeout) =>
            /\ tasks[t].node = "B"
            /\ Include(file_client_path["B"], tasks[t].uuid)
            /\ Get(file_client_path["B"], tasks[t].uuid) = <<"A", "C">>
            /\ calls[tasks[t].uuid].node = "A" /\ calls[tasks[t].uuid].cmd = FILE_GET)
    /\ [](\A t \in DOMAIN tasks : (Relaying(t) /\ ~SomeTimeout) =>
            ResponsesOf("B", "A", tasks[t].uuid) \subseteq
                (IF calls[tasks[t].cur].pc = "ret" THEN {calls[tasks[t].cur].ret[2]} ELSE {}))

\* A has got b1 from C through B: no wait has elapsed, B's relay thread has
\* ended, A has stored the blob and returned it
C19_Witness ==
    /\ client = Line
    /\ ~SomeTimeout
    /\ Returned("A", "get_file") /\ api["A"].ret = RawData("b1")
    /\ files["A"]["h1"] = "b1"
    /\ \E t \in DOMAIN tasks :
          /\ Relaying(t) /\ tasks[t].pc = "done" /\ tasks[t].node = "B"
          /\ Get(file_client_path["B"], tasks[t].uuid) = <<"A", "C">>
          /\ calls[tasks[t].cur].ret = <<"C", RawData("b1")>>

\* ---- the trim of waiting_ack: on the pair A-B both applications
\* broadcast; the requests of A are answered with an ACK only, so A handles
\* no request until the first one of B arrives
TrimCalls == WaitingAckLimit + WaitingAckDrop + 2

InitTrim ==
    /\ client = Pair
    /\ uuidLimit = TrimCalls
    /\ callers = {"A", "B"}
    /\ accepts = Nodes
    /\ InitTables
    /\ NoEnvironment
    /\ files = [n \in Nodes |-> EmptyStore]

NextTrim ==
    \/ \E n \in Nodes : SendCommandBroadcast(n, "X")
    \/ \E u \in Uuids : SendCommandSend(u)
    \/ \E u \in Uuids : SendCommandReturn(u)
    \/ \E u \in Uuids : SendCommandTimeout(u)
    \/ \E n \in Nodes, f \in Nodes : n # f /\ TypeRequestBroadcast(n, f)
    \/ \E n \in Nodes, f \in Nodes : n # f /\ TypeAck(n, f)

SpecTrim == InitTrim /\ [][NextTrim]_vars

IsSuffix(s, w) == Len(s) <= Len(w) /\ s = SubSeq(w, Len(w) - Len(s) + 1, Len(w))

\* C20 as stated: whenever the request handler trims waiting_ack (the only
\* step that shortens the list), the list it leaves is no longer than the
\* cap and consists of the newest entries of the list it found.
C20_TrimLeavesAtMostCap ==
    [][\A n \in Nodes :
          Len(waiting_ack'[n]) < Len(waiting_ack[n]) =>
              /\ Len(waiting_ack'[n]) <= WaitingAckLimit
              /\ IsSuffix(waiting_ack'[n], waiting_ack[n])]_vars

\* ------------------------------------------------------------ stabilize
\* The Stabilize thread of one node ("me") after its bootstrap, from the
\* first test of `while not self.f_stop` on (client.py:529-651). Its
\* neighbors and the peers of its registry are hosts of their own; each has
\* a fixed list of neighbors it reports to GET_PEERS, accepts connections or
\* not (header['p2p_accept']), can be reached by create_connection or not,
\* and answers commands or stays silent. The score kept in self.peers is
\* never changed by this file and is left out.
NeedConnection == 3       \* need_connection (client.py:534)
RebalancePeriod == 24     \* count % 24 (client.py:539)
RecodePeriod == 20        \* count % 20 (client.py:584)

Me == "me"
Hosts == {"p1", "p2", "p3", "p4", "p5", "p6"}

\* count is read as count % 24 and count % 20 only: it is kept within the
\* least common period of the two
RECURSIVE Gcd(_, _)
Gcd(a, b) == IF b = 0 THEN a ELSE Gcd(b, a % b)
CountCycle == (RebalancePeriod * RecodePeriod) \div Gcd(RebalancePeriod, RecodePeriod)
NextCount(c) == (c % CountCycle) + 1

\* client.py:535-543: the sleep chosen; only the third one skips the tick
Rebalances(n, c) == n < NeedConnection \/ c % RebalancePeriod = 0
\* client.py:584
RecodeDue(c) == c % RecodePeriod = 1
\* client.py:606 and 625: self.p2p.listen * 2 // 3
GrowLimit(listen) == (listen * 2) \div 3
\* client.py:639: self.p2p.listen // 2
MutateLimit(listen) == listen \div 2

allButStab == <<client, chan, result, waiting_ack, file_client_path, broadcast_que,
                calls, nextUuid, uuidLimit, callers, accepts, files, now,
                admitted, evicted, trimmed, handled, direct_cmd_result,
                direct_cmd_que, direct, responders, api, tasks, hostile, forged, shared,
                stream_que, f_stop, f_finish, proc, closer, arrived, slicing,
                fileUuidLimit, faulty>>

\* client.py:535-543: one pass of the loop head
StabilizeTick ==
    /\ stab.pc = "loop"
    /\ ~f_stop["A"]
    /\ LET c == NextCount(stab.count) IN
          stab' = [stab EXCEPT !.count = c, !.dials = <<>>,
                               !.pc = IF Rebalances(Cardinality(stab.client), c)
                                      THEN "body" ELSE "loop"]
    /\ UNCHANGED allButStab

\* client.py:572-581: the near list of the answer, entry by entry; an entry
\* not yet in near_info[k] replaces near_info[k]
RECURSIVE NearInfo(_, _, _)
NearInfo(near, ignore, info) ==
    IF near = <<>> THEN info
    ELSE IF Head(near) \in ignore THEN NearInfo(Tail(near), ignore, info)
    ELSE NearInfo(Tail(near), ignore, IF Head(near) \in info THEN info ELSE {Head(near)})
Learnt(near, ignore) == {near[i] : i \in 1..Len(near)} \ ignore

\* client.py:556-581 once a neighbor c has been chosen by send_command
\* (client.py:421): registry update, ignore list, GET_PEERS and its answer;
\* a silent neighbor is removed by the timeout (client.py:443) and the
\* TimeoutError ends the tick (client.py:647)
GetNearInfo(st, cl, dials, c) ==
    LET reg == st.peers \cup cl
        ignore == cl \cup {Me}
        near == st.near[c]
        first == c \notin DOMAIN st.near_info
    IN IF c \in st.silent
       THEN [st EXCEPT !.client = cl \ {c}, !.peers = reg, !.dials = dials, !.pc = "loop"]
       ELSE [st EXCEPT !.client = cl, !.dials = dials, !.pc = "recode",
                       !.peers = reg \cup Learnt(near, ignore),
                       !.near_info = (c :> NearInfo(near, ignore,
                                            IF first THEN {} ELSE st.near_info[c])) @@ @,
                       !.near_score = IF first THEN (c :> Len(near)) @@ @ ELSE @]

\* Core.create_connection: TRUE once the host is among the neighbors
create_connection(st, h) == h \in st.up

\* client.py:545-581: the start of a rebalance tick; hp is the registry peer
\* random.choice picks when there is no neighbor, c the neighbor asked
StabilizePoll(hp, c) ==
    /\ stab.pc = "body"
    /\ \/ /\ stab.client = {} /\ stab.peers = {}
          /\ hp = None /\ c = None
          /\ stab' = [stab EXCEPT !.pc = "loop"]
       \/ /\ stab.client = {} /\ hp \in stab.peers
          /\ LET dials == Append(stab.dials, [by |-> "alone", host |-> hp, had |-> 0]) IN
                IF create_connection(stab, hp)
                THEN c = hp /\ stab' = GetNearInfo(stab, {hp}, dials, c)
                ELSE c = None /\ stab' = [stab EXCEPT !.dials = dials, !.pc = "loop"]
       \/ /\ stab.client # {}
          /\ hp = None /\ c \in stab.client
          /\ stab' = GetNearInfo(stab, stab.client, stab.dials, c)
    /\ UNCHANGED allButStab

\* client.py:85-88 (the file holds the keys of the mapping written)
update_peers(updates) == updates

\* client.py:583-590
StabilizeRecode ==
    /\ stab.pc = "recode"
    /\ stab' = [stab EXCEPT !.pc = "act",
                            !.file = IF RecodeDue(stab.count)
                                     THEN update_peers(stab.client \cup stab.peers) ELSE @]
    /\ UNCHANGED allButStab

\* client.py:594-603
PeerScore(st) ==
    LET ignore == st.client \cup {Me}
        base == [h \in {g \in st.peers : g \in st.accept /\ g \notin ignore} |->
                    IF h \in DOMAIN st.peer_score THEN st.peer_score[h] ELSE 0]
    IN [h \in DOMAIN base |->
           (IF h \in DOMAIN st.near_info THEN Cardinality(st.near_info[h]) ELSE base[h])
           + (IF h \in DOMAIN st.near_score THEN st.near_score[h] \div 2 ELSE 0)]
Scored(score) == DOMAIN score
\* client.py:629-630: one of the first len // 2 + 1 entries in ascending
\* order of score (entries of equal score in any order)
NoChoices(score) == {}

JoinChoices(score) ==
    {h \in Scored(score) :
        Cardinality({g \in Scored(score) : score[g] < score[h]})
            < (Cardinality(Scored(score)) \div 2) + 1}

\* client.py:592-645: the scores and the action of the tick; x is the host
\* random.choice picks, mutate the outcome of random.random() < 0.01
StabilizeAct(x, mutate) ==
    /\ stab.pc = "act"
    /\ mutate => stab.mutated < MaxMutate
    /\ LET score == PeerScore(stab)
           n == Cardinality(stab.client)
           st == [stab EXCEPT !.peer_score = score, !.pc = "loop"]
       IN IF n > GrowLimit(stab.listen)
          THEN /\ x \in stab.client /\ ~mutate
               /\ stab' = IF x \in stab.silent \/ Len(stab.near[x]) >= NeedConnection
                          THEN [st EXCEPT !.client = @ \ {x}]
                          ELSE IF x \in DOMAIN score
                          THEN [st EXCEPT !.peer_score[x] = @ - 1]
                          ELSE st
          ELSE IF n < GrowLimit(stab.listen)
          THEN /\ ~mutate
               /\ IF Scored(score) = {}
                  THEN x = None /\ stab' = st
                  ELSE /\ x \in JoinChoices(score)
                       /\ LET dials == Append(stab.dials, [by |-> "join", host |-> x, had |-> n]) IN
                          stab' =
                            IF create_connection(stab, x)
                            THEN [st EXCEPT !.client = @ \cup {x}, !.dials = dials]
                            ELSE IF score[x] + 1 > stab.listen
                            THEN [st EXCEPT !.dials = dials, !.peer_score[x] = @ + 1,
                                            !.peers = @ \ {x},
                                            !.file = update_peers(stab.peers \ {x})]
                            ELSE [st EXCEPT !.dials = dials, !.peer_score[x] = @ + 1]
          ELSE IF n > MutateLimit(stab.listen) /\ mutate
          THEN x \in stab.client
               /\ stab' = [st EXCEPT !.client = @ \ {x}, !.mutated = @ + 1]
          ELSE x = None /\ stab' = st
    /\ UNCHANGED allButStab

\* the neighbors a host reports, the same list for the whole run
Reports(far, own) == [h \in Hosts |-> IF h \in DOMAIN own THEN own[h] ELSE far]
Stabilizing(listen, cl, reg, near, accept, up, silent) ==
    [pc |-> "loop", count |-> 0, listen |-> listen, client |-> cl, peers |-> reg,
     file |-> reg, mutated |-> 0, dials |-> <<>>,
     peer_score |-> [h \in {} |-> 0],
     near_info |-> [h \in {} |-> {}], near_score |-> [h \in {} |-> 0],
     near |-> near, accept |-> accept, up |-> up, silent |-> silent]

\* the runs of the stabilizer: a node whose registry lets it grow; one that
\* knows its neighbors only and learns one more peer from a near list; one with two
\* neighbors, a peer that is down and one that accepts nobody; one with
\* more neighbors than two thirds of a small cap; one with a silent neighbor; one with no neighbor;
\* one with neither neighbor nor registry
Busy == <<"p1", "p2", "p3">>
ScenariosStabilize ==
    {Stabilizing(ListenCap, {"p1", "p2", "p3"}, {"p1", "p2", "p3", "p4", "p5"},
                 Reports(Busy, [p1 |-> <<Me, "p2", "p3">>, p2 |-> <<Me, "p1", "p3">>,
                                p3 |-> <<Me, "p1", "p4">>]),
                 Hosts, Hosts, {}),
     Stabilizing(ListenCap, {"p1", "p2", "p3"}, {"p1", "p2", "p3"},
                 Reports(Busy, [p1 |-> <<Me, "p2", "p3">>, p2 |-> <<Me, "p1", "p3">>,
                                p3 |-> <<Me, "p1", "p4">>]),
                 Hosts, Hosts, {}),
     Stabilizing(ListenCap, {"p1", "p2"}, {"p1", "p2", "p3", "p4"},
                 Reports(Busy, [p1 |-> <<Me, "p2">>, p2 |-> <<Me, "p1">>]),
                 Hosts \ {"p4"}, Hosts \ {"p3"}, {}),
     Stabilizing(ListenCap \div 2, {"p1", "p2", "p3", "p4"}, {"p1", "p2", "p3", "p4"},
                 Reports(<<Me, "p1", "p2">>, [p1 |-> <<Me>>, p2 |-> <<Me, "p1">>]),
                 Hosts, Hosts, {}),
     Stabilizing(ListenCap, {"p1", "p2", "p3", "p4"}, {"p1", "p2", "p3", "p4"},
                 Reports(<<Me, "p1", "p2">>, <<>>),
                 Hosts, Hosts, {"p4"}),
     Stabilizing(ListenCap, {}, {"p1", "p2"}, Reports(<<Me>>, <<>>), Hosts, {"p1"}, {}),
     Stabilizing(ListenCap, {}, {}, Reports(<<Me>>, <<>>), Hosts, Hosts, {})}

InitStabilize ==
    /\ client = Nobody
    /\ uuidLimit = 0
    /\ callers = {}
    /\ accepts = Nodes
    /\ InitMessages
    /\ stream_que = [n \in Nodes |-> <<>>]
    /\ f_stop = [n \in Nodes |-> FALSE]
    /\ f_finish = [n \in Nodes |-> FALSE]
    /\ proc = [n \in Nodes |-> Running]
    /\ closer = [n \in Nodes |-> NotClosing]
    /\ arrived = [n \in Nodes |-> <<>>]
    /\ now = 0
    /\ NoEnvironment
    /\ files = [n \in Nodes |-> EmptyStore]
    /\ slicing = NotSlicing
    /\ fileUuidLimit = 0
    /\ faulty = {}
    /\ stab \in ScenariosStabilize

NextStabilize ==
    \/ StabilizeTick
    \/ \E hp \in Hosts \cup {None}, c \in Hosts \cup {None} : StabilizePoll(hp, c)
    \/ StabilizeRecode
    \/ \E x \in Hosts \cup {None}, mutate \in BOOLEAN : StabilizeAct(x, mutate)

\* the thread runs as long as the process does
FairnessStabilize ==
    /\ WF_vars(StabilizeTick)
    /\ WF_vars(\E hp \in Hosts \cup {None}, c \in Hosts \cup {None} : StabilizePoll(hp, c))
    /\ WF_vars(StabilizeRecode)
    /\ WF_vars(\E x \in Hosts \cup {None}, mutate \in BOOLEAN : StabilizeAct(x, mutate))

FairSpecStabilize == InitStabilize /\ [][NextStabilize]_vars /\ FairnessStabilize

\* C21 as stated: while the stabilizer has at least need_connection
\* neighbors and every neighbor answers its GET_PEERS, a peer of the
\* registry (one learnt from a near list among them) is eventually in the
\* persisted peer file.
C21_LearntPeerIsPersisted ==
    \A p \in Hosts :
        (stab.silent = {} /\ Cardinality(stab.client) >= NeedConnection /\ p \in stab.peers)
            ~> (p \in stab.file \/ Cardinality(stab.client) < NeedConnection)

\* no connection attempt and no command of the stabilizer fails
NoFailure == stab.silent = {} /\ stab.up = Hosts
\* registry peers the grow branch can dial
Dialable == {h \in stab.peers : h \in stab.accept /\ h \notin stab.client}
Joins == {i \in 1..Len(stab.dials) : stab.dials[i].by = "join"}

\* C22 as stated: with at least need_connection neighbors, a non-empty
\* registry and no failure, the node eventually has two thirds of its
\* listen cap as neighbors.
C22_GrowsToTwoThirds ==
    (NoFailure /\ Cardinality(stab.client) >= NeedConnection /\ stab.peers # {})
        ~> (Cardinality(stab.client) >= GrowLimit(stab.listen))

\* C22 amended: with no failure and a registry that holds as many accepting,
\* unconnected peers as are missing, the node eventually has two thirds of
\* its listen cap as neighbors; a rebalance tick that finds fewer neighbors
\* and a peer to dial dials exactly one registry peer; and the grow branch
\* has never dialled with two thirds of the cap or more.
C22_GrowsWhileRegistryLasts ==
    /\ (NoFailure /\ Cardinality(stab.client) + Cardinality(Dialable) >= GrowLimit(stab.listen))
          ~> (Cardinality(stab.client) >= GrowLimit(stab.listen))
    /\ [][(/\ stab.pc = "act"
           /\ Cardinality(stab.client) < GrowLimit(stab.listen)
           /\ Dialable # {})
             => /\ Cardinality(Joins') = 1
                /\ \A i \in Joins' : stab'.dials[i].host \in stab.peers
                /\ NoFailure => Cardinality(stab'.client) = Cardinality(stab.client) + 1]_vars
    /\ [](\A i \in Joins : stab.dials[i].had < GrowLimit(stab.listen))
    /\ [][Cardinality(stab.client) >= GrowLimit(stab.listen) => Joins' \subseteq Joins]_vars

\* the node that began with three neighbors and five registry peers has
\* dialled the last missing one, with no draw below 0.01 so far
C22_Witness ==
    /\ NoFailure /\ stab.listen = ListenCap /\ stab.mutated = 0
    /\ {"p1", "p2", "p3"} \subseteq stab.client
    /\ Cardinality(stab.client) = GrowLimit(stab.listen)
    /\ \E i \in Joins : stab.dials[i].had = GrowLimit(stab.listen) - 1

\* ---- the relay walk for a blob nobody holds: the application of A asks
\* for it on the triangle and on the line; every message is handled before
\* a wait elapses
ScenariosWalk == {Triangle, Line}

InitWalk ==
    /\ client \in ScenariosWalk
    /\ files = HeldBy({})
    /\ api = [n \in Nodes |-> IdleApi(IF n = "A" THEN <<"get_file">> ELSE <<>>)]
    /\ callers = {}
    /\ hostile = {}
    /\ uuidLimit = MaxLiveUuid
    /\ accepts = Nodes
    /\ responders = {}
    /\ InitMessages
    /\ InitThreads
    /\ fileUuidLimit = MaxWalkUuid
    /\ stream_que = [n \in Nodes |-> <<>>]
    /\ f_stop = [n \in Nodes |-> FALSE]
    /\ f_finish = [n \in Nodes |-> FALSE]
    /\ proc = [n \in Nodes |-> Running]
    /\ closer = [n \in Nodes |-> NotClosing]
    /\ arrived = [n \in Nodes |-> <<>>]
    /\ now = 0

NextWalk ==
    \/ \E n \in Nodes : GetFile(n, "h1")
    \/ \E n \in Nodes, c \in Nodes : GetFileCheck(n, c)
    \/ \E n \in Nodes : GetFileChecked(n)
    \/ \E n \in Nodes, c \in Nodes : GetFileChoose(n, c)
    \/ \E n \in Nodes : GetFileGet(n)
    \/ \E n \in Nodes : GetFileGot(n)
    \/ \E u \in Uuids : SendCommandSend(u)
    \/ \E u \in Uuids : SendCommandReturn(u)
    \/ \E n \in Nodes, f \in Nodes : n # f /\ TypeRequestFileCheck(n, f)
    \/ \E n \in Nodes, f \in Nodes : n # f /\ TypeRequestFileGet(n, f)
    \/ \E n \in Nodes, f \in Nodes : n # f /\ TypeResponse(n, f)
    \/ \E t \in 1..MaxFileUuid : AskingStart(t)
    \/ \E t \in 1..MaxFileUuid, c \in Nodes : AskingCheck(t, c)
    \/ \E t \in 1..MaxFileUuid : AskingChecked(t)
    \/ \E t \in 1..MaxFileUuid : AskingOver(t)
    \/ \E t \in 1..MaxFileUuid : AskingGet(t)
    \/ \E t \in 1..MaxFileUuid : AskingGot(t)

SpecWalk == InitWalk /\ [][NextWalk]_vars

\* the Asking threads a node has started for the blob h
RelaysOf(n, h) ==
    {t \in DOMAIN tasks : tasks[t].node = n /\ tasks[t].kind = "asking" /\ tasks[t].hash = h}

\* C23 as stated: where nobody holds the blob and no wait elapses, no node
\* is asked to relay the same fetch twice.
C23_NoNodeRelaysTwice ==
    \A n \in Nodes : Cardinality(RelaysOf(n, "h1")) <= 1

\* ---- FILE_GET and its answer on the pair A-B: B holds b1, the
\* application of A asks for it and the application of B removes it
InitAnswer ==
    /\ client = Pair
    /\ files = HeldBy({"B"})
    /\ api = [n \in Nodes |-> IdleApi(IF n = "A" THEN <<"get_file">>
                                      ELSE IF n = "B" THEN <<"remove_file">> ELSE <<>>)]
    /\ callers = {}
    /\ hostile = {}
    /\ uuidLimit = MaxLiveUuid
    /\ accepts = Nodes
    /\ responders = {}
    /\ InitTables

NextAnswer ==
    \/ \E n \in Nodes : RemoveFile(n, "h1")
    \/ \E n \in Nodes : GetFile(n, "h1")
    \/ \E n \in Nodes, c \in Nodes : GetFileCheck(n, c)
    \/ \E n \in Nodes : GetFileChecked(n)
    \/ \E n \in Nodes, c \in Nodes : GetFileChoose(n, c)
    \/ \E n \in Nodes : GetFileGet(n)
    \/ \E n \in Nodes : GetFileGot(n)
    \/ \E n \in Nodes : GetFileWrite(n)
    \/ \E u \in Uuids : SendCommandSend(u)
    \/ \E u \in Uuids : SendCommandReturn(u)
    \/ \E u \in Uuids : SendCommandTimeout(u)
    \/ \E n \in Nodes, f \in Nodes : n # f /\ TypeRequestFileCheck(n, f)
    \/ \E n \in Nodes, f \in Nodes : n # f /\ TypeRequestFileGet(n, f)
    \/ \E n \in Nodes, f \in Nodes : n # f /\ TypeResponse(n, f)
    \/ \E t \in 1..MaxFileUuid : Sending(t)
    \/ \E t \in 1..MaxFileUuid : AskingStart(t)
    \/ \E t \in 1..MaxFileUuid, c \in Nodes : AskingCheck(t, c)
    \/ \E t \in 1..MaxFileUuid : AskingChecked(t)
    \/ \E t \in 1..MaxFileUuid : AskingOver(t)

SpecAnswer == InitAnswer /\ [][NextAnswer]_vars

\* the thread t started for a FILE_GET request ends in this step
Ends(t) ==
    /\ t \in DOMAIN tasks
    /\ tasks[t].pc \notin {"done", "dead"}
    /\ tasks'[t].pc \in {"done", "dead"}
\* what the answer of thread t has to carry
Payload(t) ==
    IF tasks[t].kind = "sending" THEN RawData(files[tasks[t].node][tasks[t].hash])
    ELSE IF tasks[t].pc = "getting" /\ calls[tasks[t].cur].pc = "ret"
    THEN calls[tasks[t].cur].ret[2]
    ELSE NoData

\* C24 as stated: the thread a FILE_GET request starts ends with exactly
\* one RESPONSE under the uuid of the request, sent to the requester and to
\* nobody else and carrying the bytes held, the payload of the next hop or
\* null; no other step of the node sends one.
C24_AnsweredExactlyOnce ==
    [][\A t \in DOMAIN tasks :
          LET n == tasks[t].node
              f == tasks[t].from
              answer == Envelope(T_RESPONSE, FILE_GET, Payload(t), tasks[t].uuid)
          IN IF Ends(t)
             THEN /\ chan'[<<n, f>>] = Append(chan[<<n, f>>], answer)
                  /\ \A e \in Links : e # <<n, f>> => chan'[e] = chan[e]
             ELSE \A e \in Links : e[1] = n =>
                     \A i \in 1..Len(chan'[e]) :
                        (i > Len(chan[e]) /\ chan'[e][i].type = T_RESPONSE)
                            => chan'[e][i].uuid # tasks[t].uuid]_vars

\* ------------------------------------------- the fan-out of an admission
\* B sits between the broadcaster A and two more neighbors; p2p.send_msg
\* raises on none, one or both of B's onward links, or on the link back
Fan == Neighbors({<<"A", "B">>, <<"B", "C">>, <<"B", "D">>})
FaultyLinks == {{}, {<<"B", "C">>}, {<<"B", "C">>, <<"B", "D">>}, {<<"B", "A">>}}

InitFanout ==
    /\ InitMessages
    /\ stab = NotStabilizing
    /\ slicing = NotSlicing
    /\ fileUuidLimit = MaxFileUuid
    /\ faulty \in FaultyLinks
    /\ client \in {Fan, Triangle}
    /\ uuidLimit = MaxLiveUuid
    /\ callers = {"A"}
    /\ accepts = Nodes
    /\ stream_que = [n \in Nodes |-> <<>>]
    /\ f_stop = [n \in Nodes |-> FALSE]
    /\ f_finish = [n \in Nodes |-> FALSE]
    /\ proc = [n \in Nodes |-> Running]
    /\ closer = [n \in Nodes |-> NotClosing]
    /\ arrived = [n \in Nodes |-> <<>>]
    /\ now = 0
    /\ NoEnvironment
    /\ files = [n \in Nodes |-> EmptyStore]

SpecFanout == InitFanout /\ [][Next]_vars

\* the neighbors of n, f apart, that p2p.send_msg reaches
Reached(n, f) == {c \in client[n] \ {f} : <<n, c>> \notin faulty}

\* the step is n's admission of the BROADCAST at the head of the link from f
Admits(n, f) ==
    /\ n # f
    /\ HasMsg(n, f)
    /\ Msg(n, f).type = T_REQUEST
    /\ Msg(n, f).cmd = BROADCAST
    /\ chan'[<<f, n>>] = Tail(chan[<<f, n>>])
    /\ admitted'[n][Msg(n, f).uuid] = admitted[n][Msg(n, f).uuid] + 1

\* C25: a node n that admits a BROADCAST from f sends one REQUEST with the
\* same payload and uuid to every neighbor other than f, and one ACK to f
\* whose data is the number of REQUESTs sent; a neighbor for which the send
\* raises gets nothing and is not counted, and the others and the ACK are
\* still sent; nothing else is sent
C25_FanOutAndAckCount ==
    [][\A n \in Nodes, f \in Nodes :
          Admits(n, f) =>
             LET m == Msg(n, f)
                 fwd == Envelope(T_REQUEST, BROADCAST, m.data, m.uuid)
                 ack == Envelope(T_ACK, BROADCAST, CountData(Cardinality(Reached(n, f))), m.uuid)
             IN \A c \in Nodes \ {n} :
                   chan'[<<n, c>>] =
                      IF c \in Reached(n, f) THEN Append(chan[<<n, c>>], fwd)
                      ELSE IF c = f /\ f \in client[n] /\ <<n, f>> \notin faulty
                           THEN Append(chan[<<n, f>>], ack)
                           ELSE chan[<<n, c>>]]_vars

\* B has admitted A's broadcast with the send to C failing: D holds the
\* REQUEST, C nothing, and the ACK on its way to A counts one
C25_Witness ==
    /\ client = Fan
    /\ faulty = {<<"B", "C">>}
    /\ \E u \in Uuids :
          /\ admitted["B"][u] = 1
          /\ chan[<<"B", "C">>] = <<>>
          /\ chan[<<"B", "D">>] = <<Envelope(T_REQUEST, BROADCAST, PayloadData("X"), u)>>
          /\ chan[<<"B", "A">>] = <<Envelope(T_ACK, BROADCAST, CountData(1), u)>>

\* ----------------------------------- the trim as the interpreter runs it
\* client.py:348-349.  self.waiting_ack = self.waiting_ack[25:] is three
\* steps of the dispatcher thread: it reads the attribute, builds the slice
\* as a new list, and stores the new list in the attribute.  The
\* application thread runs self.waiting_ack.append(uuid) (client.py:410
\* and 413) with no lock, so the append may come before the read, after the
\* store, or in between: TypeRequestBroadcastSlice is the handler of an
\* admitted BROADCAST up to the built slice, TypeRequestBroadcastStore the
\* store that ends it.
TypeRequestBroadcastSlice(n, f) ==
    /\ ~slicing[n].on
    /\ HasMsg(n, f)
    /\ Msg(n, f).type = T_REQUEST
    /\ Msg(n, f).cmd = BROADCAST
    /\ LET m == Msg(n, f)
           u == m.uuid
       IN IF BroadcastDrop(n, u, m.data)
          THEN /\ chan' = Consume(chan, n, f)
               /\ UNCHANGED <<tableVars, broadcast_que, floodHist, slicing>>
          ELSE LET targets == ReemitTargets(n, f)
                   fwd == Envelope(T_REQUEST, BROADCAST, m.data, u)
                   ack == Envelope(T_ACK, BROADCAST, CountData(Cardinality(targets)), u)
                   res == Put(result[n], u, <<f, EnvelopeData(m)>>)
               IN /\ broadcast_que' = [broadcast_que EXCEPT ![n] = Append(@, <<f, m>>)]
                  /\ chan' = _send_msg(_send_msg(Consume(chan, n, f), n, fwd, targets),
                                       n, ack, SendTargets(n, {f}, {}))
                  /\ admitted' = [admitted EXCEPT ![n][u] = @ + 1]
                  /\ result' = [result EXCEPT ![n] = TrimResult(res)]
                  /\ file_client_path' = [file_client_path EXCEPT ![n] = TrimResult(@)]
                  /\ direct_cmd_result' = [direct_cmd_result EXCEPT ![n] = TrimResult(@)]
                  /\ evicted' = [evicted EXCEPT ![n] =
                                    CountEvictions(@, Dropped(res, TrimResult(res)))]
                  /\ slicing' = [slicing EXCEPT ![n] =
                        IF Len(waiting_ack[n]) > WaitingAckLimit
                        THEN [on |-> TRUE, keep |-> TrimWaitingAck(waiting_ack[n])]
                        ELSE @]
                  /\ UNCHANGED <<waiting_ack, trimmed>>
    /\ UNCHANGED <<client, calls, nextUuid, uuidLimit, callers, accepts, responders, hostile,
                   stopVars, stab, fileUuidLimit, faulty, storeVars, directVars, fileVars>>

TypeRequestBroadcastStore(n) ==
    /\ slicing[n].on
    /\ waiting_ack' = [waiting_ack EXCEPT ![n] = slicing[n].keep]
    /\ trimmed' = [trimmed EXCEPT ![n] = CountEvictions(@,
                        MarkersOf(waiting_ack[n]) \ MarkersOf(slicing[n].keep))]
    /\ slicing' = [slicing EXCEPT ![n] = NoSlice]
    /\ UNCHANGED <<client, chan, result, file_client_path, direct_cmd_result, broadcast_que,
                   calls, nextUuid, admitted, evicted, handled, uuidLimit, callers, accepts,
                   responders, hostile, stopVars, stab, fileUuidLimit, faulty, storeVars,
                   directVars, fileVars>>

\* the dispatcher of n handles one message at a time
NextRace ==
    \/ \E n \in Nodes : SendCommandBroadcast(n, "X")
    \/ \E u \in Uuids : SendCommandSend(u)
    \/ \E u \in Uuids : SendCommandReturn(u)
    \/ \E u \in Uuids : SendCommandTimeout(u)
    \/ \E n \in Nodes, f \in Nodes : n # f /\ TypeRequestBroadcastSlice(n, f)
    \/ \E n \in Nodes : TypeRequestBroadcastStore(n)
    \/ \E n \in Nodes, f \in Nodes : n # f /\ ~slicing[n].on /\ TypeAck(n, f)

SpecRace == InitTrim /\ [][NextRace]_vars

\* the entries appended to waiting_ack[n] since the dispatcher read it
AppendedSince(n) ==
    SubSeq(waiting_ack[n], Len(slicing[n].keep) + WaitingAckDrop + 1, Len(waiting_ack[n]))

\* C26 as stated: a uuid that send_command appends while the dispatcher
\* trims the list is in the list once the trim has stored its result.
C26_AppendSurvivesTrim ==
    [][\A n \in Nodes :
          (slicing[n].on /\ ~slicing'[n].on) =>
             MarkersOf(AppendedSince(n)) \subseteq MarkersOf(waiting_ack'[n])]_vars

====
